---------------------------- MODULE Spec2Model ----------------------------
(***************************************************************************)
(* Keyboard layout analyzer (kbda): the scoring engine (AnalyzeLayout)     *)
(* and the simulated-annealing search (the SearchOptimalLayout family).    *)
(*                                                                         *)
(* float64 values are modelled as exact rationals [num, den] in lowest     *)
(* terms; frequencies, efforts and weights are drawn from integers.        *)
(* Characters are one-rune strings; "" is an empty slot.                   *)
(***************************************************************************)
EXTENDS Integers, Sequences, FiniteSets, TLC

(***************************************************************************)
(* Grid topology: Layout.Keys is [3][10]string.                            *)
(***************************************************************************)
Rows == 0..2
Cols == 0..9
Positions == Rows \X Cols

\* row-major index of a position (row*10 + col), the order of every
\* "for row ... for col ..." loop of the source
PosNum(p) == p[1] * 10 + p[2]

PosOfNum(n) == <<n \div 10, n % 10>>

(***************************************************************************)
(* Characters and case.                                                    *)
(***************************************************************************)
LowerLetters == {"a", "b", "c", "d"}
UpperLetters == {"A", "B", "C", "D"}

isUppercase(s) == s \in UpperLetters

ToLower(s) ==
  CASE s = "A" -> "a"
    [] s = "B" -> "b"
    [] s = "C" -> "c"
    [] s = "D" -> "d"
    [] OTHER -> s

(***************************************************************************)
(* Exact arithmetic standing for float64.                                  *)
(***************************************************************************)
IAbs(x) == IF x < 0 THEN -x ELSE x

abs(x) == IF x < 0 THEN -x ELSE x

RECURSIVE Gcd(_, _)
Gcd(a, b) == IF b = 0 THEN a ELSE Gcd(b, a % b)

Frac(n, d) ==
  LET s == IF d < 0 THEN -1 ELSE 1
      g == Gcd(IAbs(n), IAbs(d))
  IN  [num |-> (s * n) \div g, den |-> (s * d) \div g]

R(n) == [num |-> n, den |-> 1]
Zero == R(0)
RAdd(x, y) == Frac(x.num * y.den + y.num * x.den, x.den * y.den)
RSub(x, y) == Frac(x.num * y.den - y.num * x.den, x.den * y.den)
RMul(x, y) == Frac(x.num * y.num, x.den * y.den)
RDiv(x, y) == Frac(x.num * y.den, x.den * y.num)
RAbs(x) == [num |-> IAbs(x.num), den |-> x.den]
RLess(x, y) == x.num * y.den < y.num * x.den

\* sum of f[i] over a finite set of integers or other values
RECURSIVE SumInt(_, _)
SumInt(S, f) ==
  IF S = {} THEN 0
  ELSE LET x == CHOOSE y \in S : TRUE IN f[x] + SumInt(S \ {x}, f)

RECURSIVE SumRat(_, _)
SumRat(S, f) ==
  IF S = {} THEN Zero
  ELSE LET x == CHOOSE y \in S : TRUE IN RAdd(f[x], SumRat(S \ {x}, f))

(***************************************************************************)
(* Finger and half assignment.                                             *)
(***************************************************************************)
fingerMap == <<0, 1, 2, 3, 3, 4, 4, 5, 6, 7>>

\* faulty variant: the column itself is taken as the finger
getFingerByColumn(row, col) == col

getFingerForKey(row, col) == fingerMap[col + 1]

getHalf(col) == IF col < 5 THEN 0 ELSE 1

Fingers == 0..7
Halves == 0..1


(***************************************************************************)
(* Layout, KeyboardConfig, LanguageData (types.go).                        *)
(*   Layout         : [Name, Keys : Positions -> string]                   *)
(*   KeyboardConfig : [EffortMatrix, FixedPositions, MaxFingerEfforts,     *)
(*                     FingerEffortPenalties, MaxRowEfforts,               *)
(*                     RowEffortPenalties, Weights,                        *)
(*                     BigramIndividualCoeffs]                             *)
(*   LanguageData   : [Characters : string -> freq,                        *)
(*                     Bigrams : sequence of runes -> freq]                *)
(***************************************************************************)

\* the inverse index built at the head of AnalyzeLayout: the loop runs in
\* row-major order and overwrites, so the last cell holding a key wins
KeyPos(layout) ==
  LET keys == {layout.Keys[p] : p \in Positions} \ {""}
      last(k) == CHOOSE p \in Positions :
                   /\ layout.Keys[p] = k
                   /\ \A q \in Positions :
                        layout.Keys[q] = k => PosNum(q) <= PosNum(p)
  IN  [k \in keys |-> last(k)]

\* the characters of the corpus that have a grid position
MatchedChars(langData, keyPos) ==
  {ch \in DOMAIN langData.Characters : ch \in DOMAIN keyPos}

\* percentage share: (part / total) * 100.0
Percent(part, total) == RMul(Frac(part, total), R(100))

\* faulty variant: without a matched character the total effort is that of
\* the uniform distribution
calculateEffortUniformWhenEmpty(config, langData, keyPos) ==
  LET chars == MatchedChars(langData, keyPos)
      freq == langData.Characters
      totalFreq == SumInt(chars, freq)
      totalEffort ==
        SumInt(chars, [ch \in chars |-> config.EffortMatrix[keyPos[ch]] * freq[ch]])
      uniformEffort == Frac(SumInt(Positions, config.EffortMatrix), 30)
      rowTotalFreqs ==
        [row \in Rows |-> SumInt({ch \in chars : keyPos[ch][1] = row}, freq)]
      fingerFreqs ==
        [f \in Fingers |->
           SumInt({ch \in chars :
                     getFingerForKey(keyPos[ch][1], keyPos[ch][2]) = f}, freq)]
      halfFreqs ==
        [h \in Halves |-> SumInt({ch \in chars : getHalf(keyPos[ch][2]) = h}, freq)]
  IN  [TotalEffort |->
         IF totalFreq > 0
         THEN RMul(RDiv(Frac(totalEffort, totalFreq), uniformEffort), R(100))
         ELSE R(100),
       EffortByRow |->
         [row \in Rows |->
            IF totalFreq > 0 THEN Percent(rowTotalFreqs[row], totalFreq) ELSE Zero],
       EffortByFinger |->
         [f \in Fingers |->
            IF totalFreq > 0 THEN Percent(fingerFreqs[f], totalFreq) ELSE Zero],
       EffortByHalf |->
         [h \in Halves |->
            IF totalFreq > 0 THEN Percent(halfFreqs[h], totalFreq) ELSE Zero]]

calculateEffort(config, langData, keyPos) ==
  LET chars == MatchedChars(langData, keyPos)
      freq == langData.Characters
      totalFreq == SumInt(chars, freq)
      totalEffort ==
        SumInt(chars, [ch \in chars |-> config.EffortMatrix[keyPos[ch]] * freq[ch]])
      uniformEffort == Frac(SumInt(Positions, config.EffortMatrix), 30)
      rowTotalFreqs ==
        [row \in Rows |-> SumInt({ch \in chars : keyPos[ch][1] = row}, freq)]
      fingerFreqs ==
        [f \in Fingers |->
           SumInt({ch \in chars :
                     getFingerForKey(keyPos[ch][1], keyPos[ch][2]) = f}, freq)]
      halfFreqs ==
        [h \in Halves |-> SumInt({ch \in chars : getHalf(keyPos[ch][2]) = h}, freq)]
  IN  [TotalEffort |->
         IF totalFreq > 0
         THEN RMul(RDiv(Frac(totalEffort, totalFreq), uniformEffort), R(100))
         ELSE Zero,
       EffortByRow |->
         [row \in Rows |->
            IF totalFreq > 0 THEN Percent(rowTotalFreqs[row], totalFreq) ELSE Zero],
       EffortByFinger |->
         [f \in Fingers |->
            IF totalFreq > 0 THEN Percent(fingerFreqs[f], totalFreq) ELSE Zero],
       EffortByHalf |->
         [h \in Halves |->
            IF totalFreq > 0 THEN Percent(halfFreqs[h], totalFreq) ELSE Zero]]


(***************************************************************************)
(* Bigram classification (calculateBigrams).                               *)
(***************************************************************************)
\* fingers 2, 3, 6, 7 of the source's comments: indices 1, 2, 5, 6
\* faulty variant: the index and ring fingers are the special ones
fingerIsSpecialIndexOrRing(finger) == finger = 1 \/ finger = 3 \/ finger = 4 \/ finger = 6

fingerIsSpecial(finger) == finger \in {1, 2, 5, 6}

\* both keys on columns 0-3, or both on columns 6-9
isSameHand(col1, col2) ==
  \/ (col1 >= 0 /\ col1 <= 3 /\ col2 >= 0 /\ col2 <= 3)
  \/ (col1 >= 6 /\ col1 <= 9 /\ col2 >= 6 /\ col2 <= 9)

noCenterColumn(col1, col2) == col1 # 4 /\ col1 # 5 /\ col2 # 4 /\ col2 # 5

\* faulty variant: strict mode drops an invalid pattern
hsbBucketDropping(strictMode, isHSBValid) ==
  IF strictMode = 1
  THEN (IF isHSBValid THEN "HSB" ELSE "dropped")
  ELSE "HSB"

\* the bucket a half-scissors pattern is added to
hsbBucket(strictMode, isHSBValid) ==
  IF strictMode = 1
  THEN (IF isHSBValid THEN "HSB" ELSE "HSB2")
  ELSE "HSB"

\* the bucket a full-scissors pattern is added to
fsbBucket(strictMode, isFSBValid) ==
  IF strictMode = 1
  THEN (IF isFSBValid THEN "FSB" ELSE "FSB2")
  ELSE "FSB"

\* the bucket a lateral-stretch pattern is added to
lsbBucket(strictMode, isLSBValid) ==
  IF strictMode = 1
  THEN (IF isLSBValid THEN "LSB" ELSE "LSB2")
  ELSE "LSB"

isLSBPattern(col1, col2) ==
  \/ (col1 = 2 /\ col2 = 4) \/ (col1 = 4 /\ col2 = 2)
  \/ (col1 = 5 /\ col2 = 7) \/ (col1 = 7 /\ col2 = 5)

isLSBValid(finger1, finger2) ==
  LET finger1IsIndex == finger1 = 1 \/ finger1 = 4
      finger2IsMiddle == finger2 = 2 \/ finger2 = 5
      finger2IsIndex == finger2 = 1 \/ finger2 = 4
      finger1IsMiddle == finger1 = 2 \/ finger1 = 5
  IN  (finger1IsIndex /\ finger2IsMiddle) \/ (finger2IsIndex /\ finger1IsMiddle)

\* 2 * |col - 4.5|, the distance to the centre line in half columns
centerDist2(col) == IAbs(2 * col - 9)

\* the accumulators one matched bigram is added to (one loop body of
\* calculateBigrams, without the individual coefficients)
BigramClasses(weights, pos1, pos2, char1, char2) ==
  LET row1 == pos1[1]
      col1 == pos1[2]
      row2 == pos2[1]
      col2 == pos2[2]
      half1 == getHalf(col1)
      half2 == getHalf(col2)
      finger1 == getFingerForKey(row1, col1)
      finger2 == getFingerForKey(row2, col2)
      rowDiff == abs(row1 - row2)
      colDiff == abs(col1 - col2)
      lowerRow == IF row2 > row1 THEN row2 ELSE row1
      isHSBValid == \/ (lowerRow = row1 /\ fingerIsSpecial(finger1))
                    \/ (lowerRow = row2 /\ fingerIsSpecial(finger2))
      isFSBValid == \/ (row1 = 2 /\ fingerIsSpecial(finger1))
                    \/ (row2 = 2 /\ fingerIsSpecial(finger2))
      sameHalf ==
           (IF finger1 = finger2 /\ col1 = col2 /\ rowDiff = 1 /\ col1 # 4 /\ col1 # 5
            THEN {"HVB"} ELSE {})
        \cup (IF finger1 = finger2 /\ col1 = col2 /\ rowDiff = 2 /\ col1 # 4 /\ col1 # 5
              THEN {"FVB"} ELSE {})
        \cup (IF finger1 = finger2 /\ rowDiff = 1 /\ colDiff = 1 THEN {"HDB"} ELSE {})
        \cup (IF finger1 = finger2 /\ rowDiff = 2 /\ colDiff = 1 THEN {"FDB"} ELSE {})
        \cup (IF finger1 = finger2 /\ row1 = row2 /\ colDiff = 1 THEN {"HFB"} ELSE {})
        \cup (IF row1 = row2 /\ noCenterColumn(col1, col2) THEN {"SRB"} ELSE {})
        \cup (IF /\ isSameHand(col1, col2) /\ finger1 # finger2 /\ rowDiff = 1
                 /\ noCenterColumn(col1, col2)
              THEN {hsbBucket(weights.HSBStrictMode, isHSBValid)} ELSE {})
        \cup (IF /\ isSameHand(col1, col2) /\ finger1 # finger2 /\ rowDiff = 2
                 /\ ((row1 = 0 /\ row2 = 2) \/ (row1 = 2 /\ row2 = 0))
                 /\ noCenterColumn(col1, col2)
              THEN {fsbBucket(weights.FSBStrictMode, isFSBValid)} ELSE {})
        \cup (IF isLSBPattern(col1, col2)
              THEN {lsbBucket(weights.LSBStrictMode, isLSBValid(finger1, finger2))}
              ELSE {})
        \cup (IF row1 = row2 /\ colDiff = 1 /\ centerDist2(col1) > centerDist2(col2)
              THEN {"AFI"} ELSE {})
        \cup (IF row1 = row2 /\ colDiff = 1 /\ centerDist2(col1) < centerDist2(col2)
              THEN {"AFO"} ELSE {})
  IN     (IF half1 = half2 THEN {"SHB"} ELSE {})
    \cup (IF finger1 = finger2 THEN {"SFB"} ELSE {})
    \cup (IF half1 = half2 THEN sameHalf ELSE {})
    \cup (IF char1 = char2 THEN {"SKB"} ELSE {})

\* the bigrams of the corpus that are counted: two runes, both placed
MatchedBigrams(langData, keyPos) ==
  {b \in DOMAIN langData.Bigrams :
     Len(b) = 2 /\ b[1] \in DOMAIN keyPos /\ b[2] \in DOMAIN keyPos}

\* sum of Coeff over the individual coefficients given for a position pair
RECURSIVE IndividualCoeffSum(_, _, _)
IndividualCoeffSum(coeffs, pos1Num, pos2Num) ==
  IF coeffs = <<>> THEN 0
  ELSE (IF Head(coeffs).Pos1 = pos1Num - 1 /\ Head(coeffs).Pos2 = pos2Num - 1
        THEN Head(coeffs).Coeff ELSE 0)
       + IndividualCoeffSum(Tail(coeffs), pos1Num, pos2Num)

BigramClassNames ==
  {"SHB", "SFB", "HVB", "FVB", "HDB", "FDB", "HFB", "HSB", "FSB", "LSB", "SRB",
   "AFI", "AFO", "HSB2", "FSB2", "LSB2", "SKB"}

\* faulty variant: TIB is left as the sum of the loop
calculateBigramsPlainTIB(config, langData, keyPos) ==
  LET bigrams == MatchedBigrams(langData, keyPos)
      freq == langData.Bigrams
      totalBigramFreq == SumInt(bigrams, freq)
      classes == [b \in bigrams |->
                    BigramClasses(config.Weights, keyPos[b[1]], keyPos[b[2]], b[1], b[2])]
      acc == [c \in BigramClassNames |->
                SumInt({b \in bigrams : c \in classes[b]}, freq)]
      tib == SumInt(bigrams,
               [b \in bigrams |->
                  freq[b] * IndividualCoeffSum(config.BigramIndividualCoeffs,
                                               PosNum(keyPos[b[1]]) + 1,
                                               PosNum(keyPos[b[2]]) + 1)])
  IN  [c \in BigramClassNames \cup {"TIB"} |->
         IF c = "TIB"
         THEN R(tib)
         ELSE (IF totalBigramFreq > 0 THEN Percent(acc[c], totalBigramFreq) ELSE Zero)]

calculateBigrams(config, langData, keyPos) ==
  LET bigrams == MatchedBigrams(langData, keyPos)
      freq == langData.Bigrams
      totalBigramFreq == SumInt(bigrams, freq)
      classes == [b \in bigrams |->
                    BigramClasses(config.Weights, keyPos[b[1]], keyPos[b[2]], b[1], b[2])]
      acc == [c \in BigramClassNames |->
                SumInt({b \in bigrams : c \in classes[b]}, freq)]
      tib == SumInt(bigrams,
               [b \in bigrams |->
                  freq[b] * IndividualCoeffSum(config.BigramIndividualCoeffs,
                                               PosNum(keyPos[b[1]]) + 1,
                                               PosNum(keyPos[b[2]]) + 1)])
  IN  [c \in BigramClassNames \cup {"TIB"} |->
         IF c = "TIB"
         THEN (IF totalBigramFreq > 0 THEN Percent(tib, totalBigramFreq) ELSE R(tib))
         ELSE (IF totalBigramFreq > 0 THEN Percent(acc[c], totalBigramFreq) ELSE Zero)]


(***************************************************************************)
(* Balance indices, threshold penalty, weighted score.                     *)
(***************************************************************************)
calculateFDI(analysis, config) ==
  LET w == config.Weights
      e == analysis.EffortByFinger
      d(i, j) == RAbs(RSub(e[i], e[j]))
  IN  RAdd(RAdd(RAdd(RMul(R(w.D18), d(0, 7)),
                     RMul(R(w.D27), d(1, 6))),
                RMul(R(w.D36), d(2, 5))),
           RMul(R(w.D45), d(3, 4)))

\* (load - max) * penalty when max > 0 and the load exceeds it, else 0
excessPenalty(load, max, penalty) ==
  IF max > 0 /\ RLess(R(max), load)
  THEN RMul(RSub(load, R(max)), R(penalty))
  ELSE Zero

calculateMEP(analysis, config) ==
  RAdd(SumRat(Fingers,
              [f \in Fingers |->
                 excessPenalty(analysis.EffortByFinger[f], config.MaxFingerEfforts[f],
                               config.FingerEffortPenalties[f])]),
       SumRat(Rows,
              [r \in Rows |->
                 excessPenalty(analysis.EffortByRow[r], config.MaxRowEfforts[r],
                               config.RowEffortPenalties[r])]))

WeightedClasses ==
  {"SHB", "SFB", "HVB", "FVB", "HDB", "FDB", "HFB", "HSB", "FSB", "LSB", "SRB",
   "AFI", "AFO"}

calculateWeightedScore(config, analysis) ==
  LET w == config.Weights
      b == analysis.BigramAnalysis
  IN  RAdd(RAdd(RAdd(RAdd(RAdd(
        RMul(R(w.TotalEffortNorm), analysis.TotalEffort),
        SumRat(WeightedClasses, [c \in WeightedClasses |-> RMul(R(w[c]), b[c])])),
        b.TIB),
        RMul(R(w.HDI), analysis.HDI)),
        RMul(R(w.FDI), analysis.FDI)),
        analysis.MEP)

\* the analysis after calculateEffort, calculateBigrams and the HDI line;
\* the fields not yet computed hold Go's zero value
analysisAfterBigrams(name, effort, bigram) ==
  [LayoutName |-> name,
   TotalEffort |-> effort.TotalEffort,
   EffortByRow |-> effort.EffortByRow,
   EffortByFinger |-> effort.EffortByFinger,
   EffortByHalf |-> effort.EffortByHalf,
   BigramAnalysis |-> bigram,
   HDI |-> RAbs(RSub(effort.EffortByHalf[0], effort.EffortByHalf[1])),
   FDI |-> Zero, MEP |-> Zero, WeightedScore |-> Zero]

\* analysis.FDI = calculateFDI(analysis, config)
withFDI(analysis, config) == [analysis EXCEPT !.FDI = calculateFDI(analysis, config)]

\* analysis.MEP = calculateMEP(analysis, config)
withMEP(analysis, config) == [analysis EXCEPT !.MEP = calculateMEP(analysis, config)]

\* analysis.WeightedScore = calculateWeightedScore(config, analysis)
withWeightedScore(analysis, config) ==
  [analysis EXCEPT !.WeightedScore = calculateWeightedScore(config, analysis)]

AnalyzeLayout(layout, config, langData) ==
  withWeightedScore(
    withMEP(
      withFDI(
        analysisAfterBigrams(layout.Name,
                             calculateEffort(config, langData, KeyPos(layout)),
                             calculateBigrams(config, langData, KeyPos(layout))),
        config),
      config),
    config)

\* total matched character frequency (totalFreq of calculateEffort)
TotalFreq(layout, langData) ==
  SumInt(MatchedChars(langData, KeyPos(layout)), langData.Characters)

(***************************************************************************)
(* Inputs of the model: cost models, corpora and layouts.                  *)
(***************************************************************************)
\* a grid given by its three rows, each a sequence of ten strings
Grid(r0, r1, r2) ==
  [p \in Positions |-> (CASE p[1] = 0 -> r0 [] p[1] = 1 -> r1 [] OTHER -> r2)[p[2] + 1]]

EmptyRow == <<"", "", "", "", "", "", "", "", "", "">>
FreeRow == <<".", ".", ".", ".", ".", ".", ".", ".", ".", ".">>
LockedRow == <<"x", "x", "x", "x", "x", "x", "x", "x", "x", "x">>

EffortA ==
  Grid(<<3, 2, 2, 2, 3, 3, 2, 2, 2, 3>>,
       <<1, 1, 1, 1, 2, 2, 1, 1, 1, 1>>,
       <<3, 3, 2, 2, 4, 4, 2, 2, 3, 3>>)

WeightsA ==
  [TotalEffortNorm |-> 1, SHB |-> 1, SFB |-> 3, HVB |-> 1, FVB |-> 2, HDB |-> 1,
   FDB |-> 2, HFB |-> 1, HSB |-> 2, FSB |-> 3, LSB |-> 2, SRB |-> 1, AFI |-> 0,
   AFO |-> 1, HDI |-> 1, FDI |-> 1, D18 |-> 1, D27 |-> 1, D36 |-> 1, D45 |-> 1,
   HSBStrictMode |-> 1, FSBStrictMode |-> 1, LSBStrictMode |-> 1]

WithStrict(w, h, f, l) ==
  [w EXCEPT !.HSBStrictMode = h, !.FSBStrictMode = f, !.LSBStrictMode = l]

ConfigWith(fixed, weights) ==
  [EffortMatrix |-> EffortA,
   FixedPositions |-> fixed,
   MaxFingerEfforts |-> [f \in Fingers |-> IF f = 1 THEN 30 ELSE 0],
   FingerEffortPenalties |-> [f \in Fingers |-> 2],
   MaxRowEfforts |-> [r \in Rows |-> IF r = 1 THEN 40 ELSE 0],
   RowEffortPenalties |-> [r \in Rows |-> 1],
   Weights |-> weights,
   BigramIndividualCoeffs |-> <<[Pos1 |-> 10, Pos2 |-> 11, Coeff |-> 5]>>]


(***************************************************************************)
(* Case handling and neighbor generation (search).                         *)
(***************************************************************************)
hasUppercaseLetters(layout) == \E p \in Positions : isUppercase(layout.Keys[p])

\* the lowercased copy and the matrix of originally uppercase positions
createLowercaseLayout(originalLayout) ==
  [layout |->
     [originalLayout EXCEPT !.Keys =
        [p \in Positions |->
           IF originalLayout.Keys[p] # "" /\ originalLayout.Keys[p] # " "
           THEN ToLower(originalLayout.Keys[p])
           ELSE originalLayout.Keys[p]]],
   uppercasePositions |->
     [p \in Positions |->
        IF originalLayout.Keys[p] # "" /\ originalLayout.Keys[p] # " "
        THEN isUppercase(originalLayout.Keys[p])
        ELSE FALSE]]

\* faulty variant: two assignments in sequence, the second reading the
\* cell the first has overwritten
SwapKeysInSequence(layout, pos1, pos2) ==
  [layout EXCEPT !.Keys = [p \in Positions |->
                             IF p = pos1 THEN layout.Keys[pos2] ELSE layout.Keys[p]]]

\* neighbor.Keys[pos1], neighbor.Keys[pos2] = neighbor.Keys[pos2], neighbor.Keys[pos1]
SwapKeys(layout, pos1, pos2) ==
  [layout EXCEPT !.Keys =
     [p \in Positions |->
        IF p = pos1 THEN layout.Keys[pos2]
        ELSE IF p = pos2 THEN layout.Keys[pos1]
        ELSE layout.Keys[p]]]

\* faulty variant: the uppercase cells of the seed are not held back
swapPositionsIgnoringUppercase(layout, config, baseLayout, uppercasePositions) ==
  LET hasUppercase == \E p \in Positions : uppercasePositions[p]
  IN  {p \in Positions :
         IF hasUppercase
         THEN /\ layout.Keys[p] # ""
              /\ layout.Keys[p] # " "
         ELSE /\ config.FixedPositions[p] = "."
              /\ layout.Keys[p] # ""
              /\ layout.Keys[p] # " "}

\* faulty variant: a cell holding " " counts as a letter
swapPositionsCountingSpace(layout, config, baseLayout, uppercasePositions) ==
  LET hasUppercase == \E p \in Positions : uppercasePositions[p]
  IN  {p \in Positions :
         IF hasUppercase
         THEN /\ layout.Keys[p] # ""
              /\ ~uppercasePositions[p]
         ELSE /\ config.FixedPositions[p] = "."
              /\ layout.Keys[p] # ""
              /\ ~isUppercase(baseLayout.Keys[p])}

\* faulty variant: the mask locks its cells whether or not the seed has
\* uppercase keys
swapPositionsLockingBoth(layout, config, baseLayout, uppercasePositions) ==
  {p \in Positions :
     /\ config.FixedPositions[p] = "."
     /\ layout.Keys[p] # ""
     /\ layout.Keys[p] # " "
     /\ ~uppercasePositions[p]}

\* swapPositions of generateNeighborFromBaseLayoutWithUppercaseInfo
swapPositionsWithUppercaseInfo(layout, config, baseLayout, uppercasePositions) ==
  LET hasUppercase == \E p \in Positions : uppercasePositions[p]
  IN  {p \in Positions :
         IF hasUppercase
         THEN /\ layout.Keys[p] # ""
              /\ layout.Keys[p] # " "
              /\ ~uppercasePositions[p]
         ELSE /\ config.FixedPositions[p] = "."
              /\ layout.Keys[p] # ""
              /\ layout.Keys[p] # " "
              /\ ~isUppercase(baseLayout.Keys[p])}

\* swappablePositions of generateNeighbor
swappablePositions(layout, config) ==
  LET hasUppercase == hasUppercaseLetters(layout)
  IN  {p \in Positions :
         IF hasUppercase
         THEN ~isUppercase(layout.Keys[p])
         ELSE config.FixedPositions[p] = "." /\ ~isUppercase(layout.Keys[p])}

\* swappablePositions of generateRandomNeighborIgnoreFixed
swappablePositionsIgnoreFixed(layout) ==
  {p \in Positions : ~isUppercase(layout.Keys[p])}

\* The two rand.Intn draws (the second repeated until it differs) pick an
\* ordered pair of distinct swappable positions: a draw is such a pair.
DrawsOver(positions) ==
  IF Cardinality(positions) < 2
  THEN {<<>>}
  ELSE {<<p1, p2>> : p1 \in positions, p2 \in positions} \
       {<<p, p>> : p \in positions}

generateNeighborFromBaseLayoutWithUppercaseInfo(layout, config, baseLayout, uppercasePositions, draw) ==
  IF Cardinality(swapPositionsWithUppercaseInfo(layout, config, baseLayout,
                                                uppercasePositions)) < 2
  THEN layout
  ELSE SwapKeys(layout, draw[1], draw[2])

generateNeighbor(layout, config, draw) ==
  IF Cardinality(swappablePositions(layout, config)) < 2
  THEN layout
  ELSE SwapKeys(layout, draw[1], draw[2])

generateRandomNeighborIgnoreFixed(layout, langData, draw) ==
  IF Cardinality(DOMAIN langData.Characters) < 2
  THEN layout
  ELSE IF Cardinality(swappablePositionsIgnoreFixed(layout)) < 2
  THEN layout
  ELSE SwapKeys(layout, draw[1], draw[2])


(***************************************************************************)
(* Random start layouts.  A shuffled letter list is an injective sequence  *)
(* over the letter set: map iteration order followed by rand.Shuffle.      *)
(***************************************************************************)
Orderings(S) ==
  {q \in [1..Cardinality(S) -> S] : \A i, j \in 1..Cardinality(S) : q[i] = q[j] => i = j}

\* number of free ('.') cells before position p in row-major order
freeCellsBefore(config, p) ==
  Cardinality({q \in Positions : PosNum(q) < PosNum(p) /\ config.FixedPositions[q] = "."})

\* generateRandomLayout, given the shuffled letters
generateRandomLayout(config, letters) ==
  [Name |-> "random",
   Keys |->
     [p \in Positions |->
        IF config.FixedPositions[p] = "."
        THEN (IF freeCellsBefore(config, p) < Len(letters)
              THEN letters[freeCellsBefore(config, p) + 1]
              ELSE "")
        ELSE IF config.FixedPositions[p] # "x"
        THEN config.FixedPositions[p]
        ELSE ""]]

RandomNames == <<"random_0", "random_1", "random_2", "random_3", "random_4", "random_5">>

\* charsMap of SearchOptimalLayoutFromRandomLayout: the lowercased keys of
\* all existing layouts, or the corpus alphabet when there are none
randomLetterSet(layouts, langData) ==
  LET charsMap ==
        {ToLower(layouts[i].Keys[p]) : i \in DOMAIN layouts, p \in Positions} \ {"", " "}
  IN  IF charsMap = {} THEN DOMAIN langData.Characters ELSE charsMap

\* the layout filled from the shuffled letters: letterIdx stops at
\* len(letters), so every later cell takes letters[len % len] = letters[0]
fillRandomLayout(restart, letters) ==
  [Name |-> RandomNames[restart + 1],
   Keys |->
     [p \in Positions |->
        IF PosNum(p) < Len(letters)
        THEN letters[PosNum(p) + 1]
        ELSE letters[(Len(letters) % Len(letters)) + 1]]]

(***************************************************************************)
(* Ranking.                                                                *)
(***************************************************************************)
swapResults(results, i, j) ==
  [k \in 1..Len(results) |->
     IF k = i THEN results[j] ELSE IF k = j THEN results[i] ELSE results[k]]

\* the inner loop: for j := i+1; j < len; j++ { if r[j].Score < r[i].Score { swap } }
RECURSIVE sortInner(_, _, _)
sortInner(results, i, j) ==
  IF j > Len(results) THEN results
  ELSE sortInner(IF RLess(results[j].Score, results[i].Score)
                 THEN swapResults(results, i, j) ELSE results, i, j + 1)

RECURSIVE sortOuter(_, _)
sortOuter(results, i) ==
  IF i > Len(results) THEN results
  ELSE sortOuter(sortInner(results, i, i + 1), i + 1)

sortResultsByScore(results) == sortOuter(results, 1)

\* faulty variant: the tail of the list is kept
truncateKeepingLast(results, numBest) ==
  IF numBest > 0 /\ Len(results) > numBest
  THEN SubSeq(results, Len(results) - numBest + 1, Len(results))
  ELSE results

\* if numBest > 0 && len(bestResults) > numBest { bestResults = bestResults[:numBest] }
truncateResults(results, numBest) ==
  IF numBest > 0 /\ Len(results) > numBest
  THEN SubSeq(results, 1, numBest)
  ELSE results


(***************************************************************************)
(* The search loop.  A search state is the record of the locals of one     *)
(* SearchOptimalLayout* call:                                              *)
(*   variant  "specific" SearchOptimalLayoutFromSpecificLayout             *)
(*            "random"   SearchOptimalLayoutFromRandomLayout               *)
(*            "plain"    SearchOptimalLayout                               *)
(*   pc       "start", "restart" (head of the restart loop), "iter" (head  *)
(*            of the iteration loop), "done", "panic"                       *)
(* produced, initial, neighborInput and neighborLayout record what the     *)
(* loop computed (history) and are read by no step; so is lowest, the      *)
(* first layout of lowest score among the restart's working layout and     *)
(* the neighbors the restart has scored.                                   *)
(***************************************************************************)
NoLayout == [Name |-> "", Keys |-> [p \in Positions |-> ""]]

NoAnalysis == [WeightedScore |-> Zero]

SearchCall(in) ==
  [variant |-> in.variant, config |-> in.config, langData |-> in.langData,
   layouts |-> in.layouts, params |-> in.params, numBest |-> in.numBest,
   startLayout |-> in.startLayout,
   pc |-> "start", restart |-> 0, iter |-> 0,
   lowercaseStartLayout |-> NoLayout,
   uppercasePositions |-> [p \in Positions |-> FALSE],
   currentLayout |-> NoLayout, currentAnalysis |-> NoAnalysis, currentScore |-> Zero,
   bestLayoutRestart |-> NoLayout, bestAnalysisRestart |-> NoAnalysis,
   bestScoreRestart |-> Zero,
   temperature |-> Zero,
   bestResults |-> <<>>,
   produced |-> <<>>, initial |-> <<>>,
   lowest |-> [Layout |-> NoLayout, Score |-> Zero],
   neighborInput |-> NoLayout, neighborLayout |-> NoLayout]

\* faulty variant: the seed is lowercased in place
searchStartInPlace(s) ==
  IF s.variant = "specific"
  THEN [s EXCEPT !.pc = "restart",
                 !.startLayout = createLowercaseLayout(s.startLayout).layout,
                 !.lowercaseStartLayout = createLowercaseLayout(s.startLayout).layout,
                 !.uppercasePositions =
                    createLowercaseLayout(s.startLayout).uppercasePositions]
  ELSE [s EXCEPT !.pc = "restart"]

\* rand.Seed and, for a seeded search, createLowercaseLayout(&startLayout)
searchStart(s) ==
  IF s.variant = "specific"
  THEN [s EXCEPT !.pc = "restart",
                 !.lowercaseStartLayout = createLowercaseLayout(s.startLayout).layout,
                 !.uppercasePositions =
                    createLowercaseLayout(s.startLayout).uppercasePositions]
  ELSE [s EXCEPT !.pc = "restart"]

\* the letter sets a restart shuffles; the seeded search shuffles nothing
restartLetterSet(s) ==
  CASE s.variant = "random" -> randomLetterSet(s.layouts, s.langData)
    [] s.variant = "plain" -> DOMAIN s.langData.Characters
    [] OTHER -> {}

\* faulty variant: every restart of the seeded search begins with the seed
restartLayoutFromSeed(s, letters) ==
  CASE s.variant = "specific" -> s.lowercaseStartLayout
    [] s.variant = "random" -> fillRandomLayout(s.restart, letters)
    [] OTHER -> generateRandomLayout(s.config, letters)

\* faulty variant: the first restart of the seeded search begins with the
\* seed as given, uppercase keys included
restartLayoutFromGivenSeed(s, letters) ==
  CASE s.variant = "specific" ->
         IF s.restart > 0 /\ Len(s.bestResults) > 0
         THEN s.bestResults[1].Layout
         ELSE s.startLayout
    [] s.variant = "random" -> fillRandomLayout(s.restart, letters)
    [] OTHER -> generateRandomLayout(s.config, letters)

\* the working layout a restart begins with
restartLayout(s, letters) ==
  CASE s.variant = "specific" ->
         IF s.restart > 0 /\ Len(s.bestResults) > 0
         THEN s.bestResults[1].Layout
         ELSE s.lowercaseStartLayout
    [] s.variant = "random" -> fillRandomLayout(s.restart, letters)
    [] OTHER -> generateRandomLayout(s.config, letters)

\* faulty variant: the restart's best score starts at zero
restartFromZeroBest(s, layout, analysis) ==
  [s EXCEPT !.pc = "iter", !.iter = 0,
            !.currentLayout = layout,
            !.currentAnalysis = analysis,
            !.currentScore = analysis.WeightedScore,
            !.bestLayoutRestart = layout,
            !.bestAnalysisRestart = analysis,
            !.bestScoreRestart = Zero,
            !.temperature = s.params.InitialTemp,
            !.initial = Append(s.initial, layout),
            !.lowest = [Layout |-> layout, Score |-> analysis.WeightedScore]]

\* the state at the head of the iteration loop, given the restart's
\* working layout and its analysis
restartFrom(s, layout, analysis) ==
  [s EXCEPT !.pc = "iter", !.iter = 0,
            !.currentLayout = layout,
            !.currentAnalysis = analysis,
            !.currentScore = analysis.WeightedScore,
            !.bestLayoutRestart = layout,
            !.bestAnalysisRestart = analysis,
            !.bestScoreRestart = analysis.WeightedScore,
            !.temperature = s.params.InitialTemp,
            !.initial = Append(s.initial, layout),
            !.lowest = [Layout |-> layout, Score |-> analysis.WeightedScore]]

\* head of the restart loop up to the iteration loop
restartBegin(s, letters) ==
  IF s.variant = "random" /\ Len(letters) = 0
  THEN [s EXCEPT !.pc = "panic"]
  ELSE restartFrom(s, restartLayout(s, letters),
                   AnalyzeLayout(restartLayout(s, letters), s.config, s.langData))

\* the positions the variant's neighbor generator may swap
neighborPositions(s) ==
  CASE s.variant = "specific" ->
         swapPositionsWithUppercaseInfo(s.currentLayout, s.config,
                                        s.lowercaseStartLayout, s.uppercasePositions)
    [] s.variant = "random" ->
         IF Cardinality(DOMAIN s.langData.Characters) < 2
         THEN {}
         ELSE swappablePositionsIgnoreFixed(s.currentLayout)
    [] OTHER -> swappablePositions(s.currentLayout, s.config)

neighborOf(s, draw) ==
  CASE s.variant = "specific" ->
         generateNeighborFromBaseLayoutWithUppercaseInfo(
           s.currentLayout, s.config, s.lowercaseStartLayout, s.uppercasePositions, draw)
    [] s.variant = "random" ->
         generateRandomNeighborIgnoreFixed(s.currentLayout, s.langData, draw)
    [] OTHER -> generateNeighbor(s.currentLayout, s.config, draw)

\* rand.Float64() < math.Exp(-delta/temperature) for temperature > 0:
\* certain when delta = 0 (Exp(0) = 1), open when delta > 0; not
\* evaluated when delta < 0
AcceptDraws(delta) ==
  IF RLess(delta, Zero) THEN {TRUE}
  ELSE IF delta = Zero THEN {TRUE}
  ELSE {TRUE, FALSE}

\* the Metropolis rule: delta < 0 || rand.Float64() < math.Exp(-delta/temperature)
acceptNeighbor(delta, coin) == RLess(delta, Zero) \/ coin

\* faulty variant: the temperature is lowered only when the neighbor is
\* accepted
iterateCoolingOnAccept(s, neighborLayout, neighborAnalysis, accepted) ==
  [s EXCEPT !.currentLayout = IF accepted THEN neighborLayout ELSE @,
            !.currentAnalysis = IF accepted THEN neighborAnalysis ELSE @,
            !.currentScore = IF accepted THEN neighborAnalysis.WeightedScore ELSE @,
            !.bestLayoutRestart =
               IF accepted /\ RLess(neighborAnalysis.WeightedScore, s.bestScoreRestart)
               THEN neighborLayout ELSE @,
            !.bestScoreRestart =
               IF accepted /\ RLess(neighborAnalysis.WeightedScore, s.bestScoreRestart)
               THEN neighborAnalysis.WeightedScore ELSE @,
            !.bestAnalysisRestart =
               IF accepted /\ RLess(neighborAnalysis.WeightedScore, s.bestScoreRestart)
               THEN neighborAnalysis ELSE @,
            !.temperature = IF accepted THEN RMul(@, s.params.CoolingRate) ELSE @,
            !.iter = @ + 1,
            !.neighborInput = s.currentLayout,
            !.neighborLayout = neighborLayout,
            !.lowest = IF RLess(neighborAnalysis.WeightedScore, s.lowest.Score)
                       THEN [Layout |-> neighborLayout,
                             Score |-> neighborAnalysis.WeightedScore]
                       ELSE @]

\* faulty variant: every accepted neighbor becomes the restart's best
iterateBestIsLastAccepted(s, neighborLayout, neighborAnalysis, accepted) ==
  [s EXCEPT !.currentLayout = IF accepted THEN neighborLayout ELSE @,
            !.currentAnalysis = IF accepted THEN neighborAnalysis ELSE @,
            !.currentScore = IF accepted THEN neighborAnalysis.WeightedScore ELSE @,
            !.bestLayoutRestart = IF accepted THEN neighborLayout ELSE @,
            !.bestScoreRestart = IF accepted THEN neighborAnalysis.WeightedScore ELSE @,
            !.bestAnalysisRestart = IF accepted THEN neighborAnalysis ELSE @,
            !.temperature = RMul(@, s.params.CoolingRate),
            !.iter = @ + 1,
            !.neighborInput = s.currentLayout,
            !.neighborLayout = neighborLayout,
            !.lowest = IF RLess(neighborAnalysis.WeightedScore, s.lowest.Score)
                       THEN [Layout |-> neighborLayout,
                             Score |-> neighborAnalysis.WeightedScore]
                       ELSE @]

\* the rest of one pass of the iteration loop, given the neighbor, its
\* analysis and the outcome of the acceptance draw
iterateWith(s, neighborLayout, neighborAnalysis, accepted) ==
  [s EXCEPT !.currentLayout = IF accepted THEN neighborLayout ELSE @,
            !.currentAnalysis = IF accepted THEN neighborAnalysis ELSE @,
            !.currentScore = IF accepted THEN neighborAnalysis.WeightedScore ELSE @,
            !.bestLayoutRestart =
               IF accepted /\ RLess(neighborAnalysis.WeightedScore, s.bestScoreRestart)
               THEN neighborLayout ELSE @,
            !.bestScoreRestart =
               IF accepted /\ RLess(neighborAnalysis.WeightedScore, s.bestScoreRestart)
               THEN neighborAnalysis.WeightedScore ELSE @,
            !.bestAnalysisRestart =
               IF accepted /\ RLess(neighborAnalysis.WeightedScore, s.bestScoreRestart)
               THEN neighborAnalysis ELSE @,
            !.temperature = RMul(@, s.params.CoolingRate),
            !.iter = @ + 1,
            !.neighborInput = s.currentLayout,
            !.neighborLayout = neighborLayout,
            !.lowest = IF RLess(neighborAnalysis.WeightedScore, s.lowest.Score)
                       THEN [Layout |-> neighborLayout,
                             Score |-> neighborAnalysis.WeightedScore]
                       ELSE @]

\* the states one pass can lead to for a neighbor and its analysis: one
\* per possible outcome of the acceptance draw
iterateOutcomes(s, neighborLayout, neighborAnalysis) ==
  {iterateWith(s, neighborLayout, neighborAnalysis,
               acceptNeighbor(RSub(neighborAnalysis.WeightedScore, s.currentScore), coin)) :
     coin \in AcceptDraws(RSub(neighborAnalysis.WeightedScore, s.currentScore))}

\* one pass of the iteration loop for a draw of the neighbor generator
iterate(s, draw) ==
  iterateOutcomes(s, neighborOf(s, draw),
                  AnalyzeLayout(neighborOf(s, draw), s.config, s.langData))

restartResult(s) ==
  [Layout |-> s.bestLayoutRestart, Analysis |-> s.bestAnalysisRestart,
   Score |-> s.bestScoreRestart]

\* faulty variant: the list is cut without being sorted
keepBestUnsorted(variant, results, numBest) ==
  IF variant = "plain"
  THEN results
  ELSE truncateResults(results, numBest)

\* what a restart does with bestResults after its iterations
keepBest(variant, results, numBest) ==
  IF variant = "plain"
  THEN results
  ELSE truncateResults(sortResultsByScore(results), numBest)

\* the tail of the restart loop: append the restart's result
restartEnd(s) ==
  [s EXCEPT !.bestResults =
               keepBest(s.variant, Append(s.bestResults, restartResult(s)), s.numBest),
            !.produced = Append(s.produced, restartResult(s)),
            !.restart = @ + 1,
            !.pc = "restart"]

\* after the restart loop: the list the call returns
searchReturn(s) ==
  [s EXCEPT !.bestResults =
               IF s.variant = "plain"
               THEN truncateResults(sortResultsByScore(s.bestResults), s.numBest)
               ELSE truncateResults(s.bestResults, s.numBest),
            !.pc = "done"]


(***************************************************************************)
(* Bounds and inputs of the search runs.                                   *)
(***************************************************************************)
MaxIterations == 2
MaxRestarts == 3
MaxNumBest == 3
\* Iterations * Restarts of one run is at most MaxWork
MaxWork == 3

FixedFree == Grid(FreeRow, FreeRow, FreeRow)

\* every cell free but (1,1), which is locked
FixedLock1 ==
  Grid(FreeRow, <<".", "x", ".", ".", ".", ".", ".", ".", ".", ".">>, FreeRow)

\* three free cells on the home row, a cell locked to "c", the rest locked
FixedHome3 ==
  Grid(LockedRow, <<".", ".", ".", "c", "x", "x", "x", "x", "x", "x">>, LockedRow)

HomeRow(k0, k1, k2, k3) == <<k0, k1, k2, k3, "", "", "", "", "", "">>

SeedUpper == [Name |-> "seedU", Keys |-> Grid(EmptyRow, HomeRow("A", "b", "c", "d"), EmptyRow)]

SeedLower ==
  [Name |-> "seedL",
   Keys |-> Grid(EmptyRow, <<"a", "b", "c", "d", "", " ", "", "", "", "">>, EmptyRow)]

SeedUpper3 == [Name |-> "seedU3", Keys |-> Grid(EmptyRow, HomeRow("A", "b", "c", ""), EmptyRow)]

\* one locked and one free letter, and a cell holding " "
SeedPair == [Name |-> "seedP", Keys |-> Grid(EmptyRow, HomeRow("A", "b", " ", ""), EmptyRow)]

SeedTwo == [Name |-> "two", Keys |-> Grid(EmptyRow, HomeRow("a", "B", "", ""), EmptyRow)]

CorpusA ==
  [Characters |-> [ch \in {"a", "b", "c", "d"} |->
                     CASE ch = "a" -> 5 [] ch = "b" -> 3 [] ch = "c" -> 2 [] OTHER -> 1],
   Bigrams |-> [b \in {<<"a", "b">>, <<"b", "c">>, <<"c", "a">>, <<"a", "a">>,
                       <<"d", "a">>, <<"b", "d">>, <<"a">>} |->
                  CASE b = <<"a", "b">> -> 4 [] b = <<"b", "c">> -> 3
                    [] b = <<"c", "a">> -> 2 [] b = <<"a", "a">> -> 1
                    [] b = <<"d", "a">> -> 1 [] b = <<"b", "d">> -> 2
                    [] OTHER -> 7]]

Corpus2 ==
  [Characters |-> [ch \in {"a", "b"} |-> IF ch = "a" THEN 3 ELSE 1],
   Bigrams |-> [b \in {<<"a", "b">>, <<"b", "a">>} |-> IF b = <<"a", "b">> THEN 2 ELSE 1]]

Corpus1 ==
  [Characters |-> [ch \in {"a"} |-> 1],
   Bigrams |-> [b \in {<<"a", "a">>} |-> 1]]

EmptyCorpus == [Characters |-> <<>>, Bigrams |-> <<>>]

\* a corpus of letters that the layouts of the model do not hold
CorpusZ ==
  [Characters |-> [ch \in {"y", "z"} |-> IF ch = "y" THEN 2 ELSE 1],
   Bigrams |-> [b \in {<<"y", "z">>, <<"z", "y">>} |-> IF b = <<"y", "z">> THEN 3 ELSE 1]]

SAParams(i, r) ==
  [InitialTemp |-> R(10), CoolingRate |-> Frac(1, 2), Iterations |-> i, Restarts |-> r]

LightParams ==
  {SAParams(i, r) : <<i, r>> \in {<<j, q>> \in (0..MaxIterations) \X (1..MaxRestarts) :
                                    j * q <= MaxWork}}

\* runs over the whole grid: at most one annealing iteration in all
HeavyParams == {p \in LightParams : p.Iterations * p.Restarts <= 1}

Call(variant, config, langData, layouts, startLayout, paramSet) ==
  {[variant |-> variant, config |-> config, langData |-> langData,
    layouts |-> layouts, startLayout |-> startLayout,
    params |-> p, numBest |-> n] : p \in paramSet, n \in 0..MaxNumBest}

SearchInputs ==
  LET free == ConfigWith(FixedFree, WeightsA)
      lock1 == ConfigWith(FixedLock1, WeightsA)
      home3 == ConfigWith(FixedHome3, WeightsA)
  IN       Call("specific", free, CorpusA, <<SeedUpper>>, SeedUpper, LightParams)
      \cup Call("specific", lock1, CorpusA, <<SeedLower>>, SeedLower, LightParams)
      \cup Call("specific", lock1, CorpusA, <<SeedUpper3>>, SeedUpper3, LightParams)
      \cup Call("specific", free, CorpusA, <<SeedPair>>, SeedPair, LightParams)
      \cup Call("random", free, Corpus2, <<SeedTwo>>, NoLayout, HeavyParams)
      \cup Call("random", free, EmptyCorpus, <<>>, NoLayout, HeavyParams)
      \cup Call("random", free, Corpus1, <<SeedTwo>>, NoLayout, LightParams)
      \cup Call("plain", home3, Corpus1, <<>>, NoLayout, LightParams)
      \cup Call("plain", home3, Corpus2, <<>>, NoLayout, LightParams)

(***************************************************************************)
(* State.                                                                  *)
(*   search      the locals of one search call (specification Spec)        *)
(*   bench       a layout under analysis and edits (SpecAnalyze)           *)
(*   runA, runB  two search calls with the same inputs and the same        *)
(*               RandomSeed (SpecRepro)                                    *)
(*   loader      a configuration file being loaded and used (SpecLoad)     *)
(*   cont        a continuous search (SpecContinuous)                      *)
(*   shell       the command handler of the interactive mode (SpecShell,   *)
(*               SpecTuning)                                               *)
(* A specification leaves the variables of the others at Idle.             *)
(***************************************************************************)
VARIABLES search, bench, runA, runB, loader, cont, shell

vars == <<search, bench, runA, runB, loader, cont, shell>>

Idle == "idle"

Init ==
  /\ search \in {SearchCall(in) : in \in SearchInputs}
  /\ bench = Idle
  /\ runA = Idle
  /\ runB = Idle
  /\ loader = Idle
  /\ cont = Idle
  /\ shell = Idle

SearchStart ==
  /\ search.pc = "start"
  /\ search' = searchStart(search)
  /\ UNCHANGED <<bench, runA, runB, loader, cont, shell>>

RestartBegin ==
  /\ search.pc = "restart"
  /\ search.restart < search.params.Restarts
  /\ \E letters \in Orderings(restartLetterSet(search)) :
       search' = restartBegin(search, letters)
  /\ UNCHANGED <<bench, runA, runB, loader, cont, shell>>

Iterate ==
  /\ search.pc = "iter"
  /\ search.iter < search.params.Iterations
  /\ \E draw \in DrawsOver(neighborPositions(search)) :
       search' \in iterate(search, draw)
  /\ UNCHANGED <<bench, runA, runB, loader, cont, shell>>

RestartEnd ==
  /\ search.pc = "iter"
  /\ search.iter >= search.params.Iterations
  /\ search' = restartEnd(search)
  /\ UNCHANGED <<bench, runA, runB, loader, cont, shell>>

SearchReturn ==
  /\ search.pc = "restart"
  /\ search.restart >= search.params.Restarts
  /\ search' = searchReturn(search)
  /\ UNCHANGED <<bench, runA, runB, loader, cont, shell>>

Next == SearchStart \/ RestartBegin \/ Iterate \/ RestartEnd \/ SearchReturn

Spec == Init /\ [][Next]_vars

(***************************************************************************)
(* Analysis and edits of one layout (specification SpecAnalyze).           *)
(*   bench.layout    the layout at hand                                    *)
(*   bench.analysis  AnalyzeLayout of bench.layout, NoAnalysis after an    *)
(*                   edit until it is analysed again                       *)
(*   bench.swaps     the swaps made: what was swapped and the layout       *)
(*                   before it (history)                                   *)
(***************************************************************************)
MaxSwaps == 2

\* the cells the position swap is drawn from
SwapCells == {<<0, 1>>, <<1, 2>>, <<2, 3>>, <<1, 8>>}

\* the arguments given to the sw command
SwapLetterArgs == {<<"a", "b">>, <<"c", "d">>, <<"a", "z">>, <<"b", "b">>}

\* letters on three rows and four fingers of the left half
LayoutQ ==
  [Name |-> "q",
   Keys |-> Grid(<<"", "a", "", "", "", "", "", "", "", "">>,
                 <<"", "", "b", "", "d", "", "", "", "", "">>,
                 <<"", "", "", "c", "", "", "", "", "", "">>)]

BenchInputs ==
  {[layout |-> l, config |-> ConfigWith(FixedFree, w), langData |-> c] :
     l \in {LayoutQ, SeedUpper},
     w \in {WeightsA, WithStrict(WeightsA, 0, 0, 0)},
     c \in {CorpusA, EmptyCorpus, CorpusZ}}

\* foundChar1 && foundChar2 of CommandSwapLetters
swapLettersFound(layout, char1, char2) ==
  /\ \E p \in Positions : layout.Keys[p] = char1
  /\ \E p \in Positions : layout.Keys[p] = char2 /\ layout.Keys[p] # char1

\* swappedLayout of CommandSwapLetters
swapLetters(layout, char1, char2) ==
  [Name |-> layout.Name \o " (sw " \o char1 \o char2 \o ")",
   Keys |-> [p \in Positions |->
               IF layout.Keys[p] = char1 THEN char2
               ELSE IF layout.Keys[p] = char2 THEN char1
               ELSE layout.Keys[p]]]

\* the bench after a swap that turned its layout into `swapped`
afterSwap(b, op, swapped) ==
  [b EXCEPT !.layout = swapped,
            !.analysis = NoAnalysis,
            !.swaps = Append(@, [op |-> op, before |-> b.layout])]

InitAnalyze ==
  /\ bench \in {[layout |-> in.layout, config |-> in.config, langData |-> in.langData,
                 analysis |-> NoAnalysis, swaps |-> <<>>] : in \in BenchInputs}
  /\ search = Idle
  /\ runA = Idle
  /\ runB = Idle
  /\ loader = Idle
  /\ cont = Idle
  /\ shell = Idle

Analyze ==
  /\ bench' = [bench EXCEPT !.analysis =
                               AnalyzeLayout(bench.layout, bench.config, bench.langData)]
  /\ UNCHANGED <<search, runA, runB, loader, cont, shell>>

\* the swap of a neighbor generator, at two distinct cells
SwapPositions ==
  /\ Len(bench.swaps) < MaxSwaps
  /\ \E pos1, pos2 \in SwapCells :
       /\ pos1 # pos2
       /\ bench' = afterSwap(bench, <<"cells", {pos1, pos2}>>,
                             SwapKeys(bench.layout, pos1, pos2))
  /\ UNCHANGED <<search, runA, runB, loader, cont, shell>>

\* the sw command; it returns an error and changes nothing unless both
\* letters are found
SwapLetters ==
  /\ Len(bench.swaps) < MaxSwaps
  /\ \E arg \in SwapLetterArgs :
       IF swapLettersFound(bench.layout, arg[1], arg[2])
       THEN bench' = afterSwap(bench, <<"letters", {arg[1], arg[2]}>>,
                               swapLetters(bench.layout, arg[1], arg[2]))
       ELSE bench' = bench
  /\ UNCHANGED <<search, runA, runB, loader, cont, shell>>

NextAnalyze == Analyze \/ SwapPositions \/ SwapLetters

SpecAnalyze == InitAnalyze /\ [][NextAnalyze]_vars

(***************************************************************************)
(* Analysis of two letters at every pair of cells (specification           *)
(* SpecPairs): bench, as in SpecAnalyze, with a layout that holds "a" and  *)
(* "b" and a corpus of their bigrams.                                      *)
(***************************************************************************)
\* "a" at pos1, "b" at pos2, nothing elsewhere
PairLayout(pos1, pos2) ==
  [Name |-> "pair",
   Keys |-> [p \in Positions |-> IF p = pos1 THEN "a" ELSE IF p = pos2 THEN "b" ELSE ""]]

PairCorpusAB ==
  [Characters |-> [ch \in {"a", "b"} |-> IF ch = "a" THEN 2 ELSE 1],
   Bigrams |-> [b \in {<<"a", "b">>, <<"a", "a">>} |-> IF b = <<"a", "b">> THEN 3 ELSE 1]]

PairCorpusBoth ==
  [Characters |-> [ch \in {"a", "b"} |-> IF ch = "a" THEN 1 ELSE 3],
   Bigrams |-> [b \in {<<"a", "b">>, <<"b", "a">>} |-> IF b = <<"a", "b">> THEN 1 ELSE 2]]

PairInputs ==
  {[layout |-> PairLayout(pq[1], pq[2]), config |-> ConfigWith(FixedFree, w),
    langData |-> c] :
     pq \in {cells \in Positions \X Positions : cells[1] # cells[2]},
     w \in {WeightsA, WithStrict(WeightsA, 0, 0, 0)},
     c \in {PairCorpusAB, PairCorpusBoth}}

InitPairs ==
  /\ bench \in {[layout |-> in.layout, config |-> in.config, langData |-> in.langData,
                 analysis |-> NoAnalysis, swaps |-> <<>>] : in \in PairInputs}
  /\ search = Idle
  /\ runA = Idle
  /\ runB = Idle
  /\ loader = Idle
  /\ cont = Idle
  /\ shell = Idle

NextPairs == Analyze

SpecPairs == InitPairs /\ [][NextPairs]_vars

(***************************************************************************)
(* Two calls with the same inputs and the same RandomSeed (specification   *)
(* SpecRepro).  rand.Seed(params.RandomSeed) makes the generator give both *)
(* calls the same numbers: the same rand.Shuffle permutation for a list of *)
(* a given length and, from equal states, the same swap draw and the same  *)
(* acceptance draw.  The order in which `range` walks a map is chosen by   *)
(* the runtime for each walk and does not depend on the seed.  Once the    *)
(* two calls differ, the numbers they consume may differ as well (the      *)
(* acceptance draw is skipped when delta < 0).                             *)
(***************************************************************************)
\* random-start calls are followed through their restarts only, the
\* others through at most one iteration after they differ
ReproInputs ==
  LET free == ConfigWith(FixedFree, WeightsA)
      home3 == ConfigWith(FixedHome3, WeightsA)
  IN       Call("specific", free, CorpusA, <<SeedUpper>>, SeedUpper, LightParams)
      \cup Call("random", free, Corpus2, <<SeedTwo>>, NoLayout,
                {p \in HeavyParams : p.Iterations = 0})
      \cup Call("plain", home3, Corpus2, <<>>, NoLayout, HeavyParams)

\* the list rand.Shuffle leaves: entry i is the entry shuffle[i] of the
\* list the map walk produced
shuffled(mapOrder, shuffle) == [i \in DOMAIN mapOrder |-> mapOrder[shuffle[i]]]

InitRepro ==
  /\ \E in \in ReproInputs :
       /\ runA = SearchCall(in)
       /\ runB = SearchCall(in)
  /\ search = Idle
  /\ bench = Idle
  /\ loader = Idle
  /\ cont = Idle
  /\ shell = Idle

ReproStart ==
  /\ runA.pc = "start"
  /\ runA' = searchStart(runA)
  /\ runB' = searchStart(runB)
  /\ UNCHANGED <<search, bench, loader, cont, shell>>

ReproRestartBegin ==
  /\ runA.pc = "restart"
  /\ runA.restart < runA.params.Restarts
  /\ \E shuffle \in Orderings(1..Cardinality(restartLetterSet(runA))) :
       \E orderA, orderB \in Orderings(restartLetterSet(runA)) :
         /\ runA' = restartBegin(runA, shuffled(orderA, shuffle))
         /\ runB' = restartBegin(runB, shuffled(orderB, shuffle))
  /\ UNCHANGED <<search, bench, loader, cont, shell>>

ReproIterate ==
  /\ runA.pc = "iter"
  /\ runA.iter < runA.params.Iterations
  /\ IF runA = runB
     THEN \E draw \in DrawsOver(neighborPositions(runA)) :
            /\ runA' \in iterate(runA, draw)
            /\ runB' = runA'
     ELSE \E drawA \in DrawsOver(neighborPositions(runA)) :
            \E drawB \in DrawsOver(neighborPositions(runB)) :
              /\ runA' \in iterate(runA, drawA)
              /\ runB' \in iterate(runB, drawB)
  /\ UNCHANGED <<search, bench, loader, cont, shell>>

ReproRestartEnd ==
  /\ runA.pc = "iter"
  /\ runA.iter >= runA.params.Iterations
  /\ runA' = restartEnd(runA)
  /\ runB' = restartEnd(runB)
  /\ UNCHANGED <<search, bench, loader, cont, shell>>

ReproReturn ==
  /\ runA.pc = "restart"
  /\ runA.restart >= runA.params.Restarts
  /\ runA' = searchReturn(runA)
  /\ runB' = searchReturn(runB)
  /\ UNCHANGED <<search, bench, loader, cont, shell>>

NextRepro ==
  ReproStart \/ ReproRestartBegin \/ ReproIterate \/ ReproRestartEnd \/ ReproReturn

SpecRepro == InitRepro /\ [][NextRepro]_vars

(***************************************************************************)
(* Loading the cost model and starting a search from the command handler   *)
(* (specification SpecLoad).  A configuration file is the sequence of its  *)
(* lines, each line the sequence of its fields after the comment is cut    *)
(* off (strings.Fields of the text before '#'); a blank line is <<>>.      *)
(*   loader.pc      "load", "failed" (LoadAllData returned an error and    *)
(*                  main exits), "ready" (the handler holds the            *)
(*                  configuration), "searching" (CommandAnalyze has called *)
(*                  a search), "rejected" (CommandAnalyze returned an      *)
(*                  error)                                                 *)
(*   loader.lines   the file                                               *)
(*   loader.config  the loaded KeyboardConfig                              *)
(*   loader.run     the search call CommandAnalyze made, after its first   *)
(*                  step                                                   *)
(***************************************************************************)
\* the fields strconv.ParseFloat accepts, and their values
NumberOf == [tok \in {"1", "2", "3"} |-> CASE tok = "1" -> 1 [] tok = "2" -> 2 [] OTHER -> 3]

isNumber(tok) == tok \in DOMAIN NumberOf

\* the first index i >= from of `lines` with ok[i], or Len(lines) + 1
firstLineFrom(lines, from, ok) ==
  IF \E i \in from..Len(lines) : ok[i]
  THEN CHOOSE i \in from..Len(lines) : ok[i] /\ \A j \in from..(i - 1) : ~ok[j]
  ELSE Len(lines) + 1

\* the lines parseEffortMatrix reads: the first three that are not blank
effortLines(lines) ==
  LET nonBlank == SelectSeq(lines, LAMBDA line : line # <<>>)
  IN  SubSeq(nonBlank, 1, IF Len(nonBlank) < 3 THEN Len(nonBlank) ELSE 3)

isEffortLine(line) ==
  Len(line) >= 10 /\ \A col \in 1..10 : isNumber(line[col])

parseEffortMatrix(lines) ==
  IF Len(effortLines(lines)) < 3
       \/ \E i \in DOMAIN effortLines(lines) : ~isEffortLine(effortLines(lines)[i])
  THEN [err |-> TRUE, EffortMatrix |-> <<>>]
  ELSE [err |-> FALSE,
        EffortMatrix |->
          [p \in Positions |-> NumberOf[effortLines(lines)[p[1] + 1][p[2] + 1]]]]

\* a line with at least 8 fields of which the first 8 are numbers
isFingerLine(line) ==
  Len(line) >= 8 /\ \A i \in 1..8 : isNumber(line[i])

fingerValues(line) == [f \in Fingers |-> NumberOf[line[f + 1]]]

\* the finger maxima are the first line of 8 numbers of the whole file, the
\* penalties the next such line
parseMaxFingerEfforts(lines) ==
  LET ok == [i \in DOMAIN lines |-> isFingerLine(lines[i])]
      maxIdx == firstLineFrom(lines, 1, ok)
      penIdx == firstLineFrom(lines, maxIdx + 1, ok)
  IN  IF maxIdx > Len(lines) \/ penIdx > Len(lines)
      THEN [err |-> TRUE, MaxFingerEfforts |-> <<>>, FingerEffortPenalties |-> <<>>]
      ELSE [err |-> FALSE,
            MaxFingerEfforts |-> fingerValues(lines[maxIdx]),
            FingerEffortPenalties |-> fingerValues(lines[penIdx])]

\* the first line of exactly 10 fields whose first field is "." or "x"
isMaskStart(line) == Len(line) = 10 /\ line[1] \in {".", "x"}

\* the mask is that line and the two lines after it, whatever their fields
\* are, as long as each has 10 of them
parseFixedPositions(lines) ==
  LET startIdx == firstLineFrom(lines, 1, [i \in DOMAIN lines |-> isMaskStart(lines[i])])
  IN  IF startIdx > Len(lines)
           \/ \E row \in Rows :
                startIdx + row > Len(lines) \/ Len(lines[startIdx + row]) < 10
      THEN [err |-> TRUE, FixedPositions |-> <<>>]
      ELSE [err |-> FALSE,
            FixedPositions |-> [p \in Positions |-> lines[startIdx + p[1]][p[2] + 1]]]

\* the weights of a file without weight lines: the defaults of parseWeights
\* (rationals), and the row maxima and penalties left at zero
parseWeights(lines) ==
  [TotalEffortNorm |-> Frac(1, 100),
   SHB |-> Frac(1, 10), SFB |-> Frac(1, 10), HVB |-> Frac(1, 10), FVB |-> Frac(1, 10),
   HDB |-> Frac(1, 10), FDB |-> Frac(1, 10), HFB |-> Frac(1, 10), HSB |-> Frac(1, 10),
   FSB |-> Frac(1, 10), LSB |-> Frac(1, 10), SRB |-> Frac(1, 10), AFI |-> Frac(1, 10),
   AFO |-> Frac(1, 10), HDI |-> Frac(1, 10), FDI |-> Frac(1, 10), D18 |-> Frac(1, 10),
   D27 |-> Frac(1, 10), D36 |-> Frac(1, 10), D45 |-> Frac(1, 10),
   HSBStrictMode |-> 1, FSBStrictMode |-> 1, LSBStrictMode |-> 0]

\* the configuration and whether an error is returned instead of it
LoadKeyboardConfig(lines) ==
  IF parseEffortMatrix(lines).err \/ parseMaxFingerEfforts(lines).err
       \/ parseFixedPositions(lines).err
  THEN [err |-> TRUE, config |-> <<>>]
  ELSE [err |-> FALSE,
        config |->
          [EffortMatrix |-> parseEffortMatrix(lines).EffortMatrix,
           FixedPositions |-> parseFixedPositions(lines).FixedPositions,
           MaxFingerEfforts |-> parseMaxFingerEfforts(lines).MaxFingerEfforts,
           FingerEffortPenalties |-> parseMaxFingerEfforts(lines).FingerEffortPenalties,
           MaxRowEfforts |-> [r \in Rows |-> 0],
           RowEffortPenalties |-> [r \in Rows |-> 0],
           Weights |-> parseWeights(lines),
           BigramIndividualCoeffs |-> <<>>]]

\* DefaultSAParams, with the loop counts of the model
DefaultSAParams == SAParams(2, 1)

\* the argument strings of the command: none, a layout number, a layout
\* number and a number of results, a number that is not positive
AnalyzeArgs == {<<>>, <<1>>, <<2>>, <<1, 2>>, <<3, 1>>, <<0>>}

\* CommandAnalyze up to and including the call of the search: the call, or
\* an error when the arguments are refused
analyzeCall(config, langData, layouts, args) ==
  LET call(variant, startLayout, numBest) ==
        [err |-> FALSE,
         call |-> SearchCall([variant |-> variant, config |-> config,
                              langData |-> langData, layouts |-> layouts,
                              startLayout |-> startLayout,
                              params |-> DefaultSAParams, numBest |-> numBest])]
  IN  CASE Len(args) = 0 -> call("random", NoLayout, 1)
        [] Len(args) = 1 /\ args[1] > 0 /\ args[1] <= Len(layouts) ->
             call("specific", layouts[args[1]], 1)
        [] Len(args) = 1 /\ args[1] > Len(layouts) -> call("random", NoLayout, args[1])
        [] Len(args) = 2 /\ args[1] > 0 /\ args[2] > 0 /\ args[1] <= Len(layouts) ->
             call("specific", layouts[args[1]], args[2])
        [] OTHER -> [err |-> TRUE, call |-> <<>>]

NumLine == <<"1", "2", "2", "2", "3", "3", "2", "2", "2", "3">>
ShortNumLine == <<"1", "2", "2", "2", "3", "3", "2", "2", "2">>
BlankLine == <<>>
OneFreeLine == <<".", "x", "x", "x", "x", "x", "x", "x", "x", "x">>
LetterLine == <<"x", "q", "x", "x", "x", "x", "x", "x", "x", "x">>
ShortMaskLine == <<"x", "x", "x", "x", "x", "x", "x", "x", "x">>

\* the heads of the files: the three effort rows
EffortHeads ==
  {<<NumLine, NumLine, NumLine>>, <<NumLine, BlankLine, NumLine, NumLine>>,
   <<NumLine, ShortNumLine, NumLine>>}

MaskLines == {FreeRow, LockedRow, OneFreeLine, LetterLine, ShortMaskLine, BlankLine}

ConfigFiles ==
  {head \o <<m0, m1, m2>> : head \in EffortHeads, m0 \in MaskLines, m1 \in MaskLines,
                            m2 \in MaskLines}

InitLoad ==
  /\ loader \in {[pc |-> "load", lines |-> lines, config |-> <<>>, run |-> <<>>] :
                   lines \in ConfigFiles}
  /\ search = Idle
  /\ bench = Idle
  /\ runA = Idle
  /\ runB = Idle
  /\ cont = Idle
  /\ shell = Idle

\* main: LoadAllData, and os.Exit(1) on an error
LoadConfig ==
  /\ loader.pc = "load"
  /\ loader' = IF LoadKeyboardConfig(loader.lines).err
               THEN [loader EXCEPT !.pc = "failed"]
               ELSE [loader EXCEPT !.pc = "ready",
                                   !.config = LoadKeyboardConfig(loader.lines).config]
  /\ UNCHANGED <<search, bench, runA, runB, cont, shell>>

\* the command a: CommandAnalyze over the handler's configuration
CommandAnalyze ==
  /\ loader.pc = "ready"
  /\ \E args \in AnalyzeArgs :
       LET call == analyzeCall(loader.config, Corpus2, <<SeedLower, SeedTwo>>, args)
       IN  loader' = IF call.err
                     THEN [loader EXCEPT !.pc = "rejected"]
                     ELSE [loader EXCEPT !.pc = "searching",
                                         !.run = searchStart(call.call)]
  /\ UNCHANGED <<search, bench, runA, runB, cont, shell>>

NextLoad == LoadConfig \/ CommandAnalyze

SpecLoad == InitLoad /\ [][NextLoad]_vars

(***************************************************************************)
(* Properties of loading (specification SpecLoad).                         *)
(***************************************************************************)
\* the positions the mask of a cost model leaves unlocked
unlockedPositions(config) == {p \in Positions : config.FixedPositions[p] = "."}

\* C11 as stated: a cost model with fewer than two unlocked positions is
\* refused when it is loaded, so every search the command handler starts
\* runs with a cost model of at least two unlocked positions.
C11_TooFewUnlockedRefused ==
  loader.pc = "searching" =>
    Cardinality(unlockedPositions(loader.config)) >= 2

(***************************************************************************)
(* Continuous search (specification SpecContinuous): the command handler   *)
(* runs one search after the other until the key-reading goroutine closes  *)
(* the channel `done`.                                                     *)
(*   cont.pc          "command" (arguments not parsed yet), "error",       *)
(*                    "loop" (head of the for loop), "run" (inside a       *)
(*                    search call), "poll" (the call has returned, the     *)
(*                    select is next), "exit" (the loop has ended),        *)
(*                    "stopped" (the command has returned)                 *)
(*   cont.done        the channel `done` is closed                         *)
(*   cont.iteration   the loop counter `iteration`                         *)
(*   cont.run         the locals of the search call in progress            *)
(*   cont.results     `results` of the pass; cont.bestResults likewise     *)
(*   cont.stored      ch.bestResults; cont.searchResultLayout likewise     *)
(*   cont.tape        what the first search call went through, step by     *)
(*                    step (the working layout and the neighbor after the  *)
(*                    step): every call seeds the generator with the same  *)
(*                    params.RandomSeed, so a later call that has gone     *)
(*                    through the same (cont.following) draws what the     *)
(*                    first drew                                           *)
(* History, read by no step: cont.completed (the result lists of the calls *)
(* that returned), cont.stopInRun (`done` was closed inside a search       *)
(* call), cont.itersSinceStop and cont.runsSinceStop (annealing iterations *)
(* executed and search calls begun after `done` was closed).               *)
(***************************************************************************)
\* the search calls of the model are cut off after this many
MaxRuns == 2

NoRun == [pc |-> "none"]

\* the argument parsing of CommandContinuousAnalyze, without file names
continuousCall(layouts, args) ==
  LET call(variant, startLayout, numBest) ==
        [err |-> FALSE,
         call |-> [variant |-> variant, startLayout |-> startLayout,
                   params |-> DefaultSAParams, numBest |-> numBest]]
  IN  CASE Len(args) = 0 -> call("random", NoLayout, 1)
        [] Len(args) = 1 /\ args[1] > 0 /\ args[1] <= Len(layouts) ->
             call("specific", layouts[args[1]], 1)
        [] Len(args) = 1 /\ args[1] > Len(layouts) -> call("random", NoLayout, args[1])
        [] Len(args) = 2 /\ args[1] > 0 /\ args[2] > 0 /\ args[1] <= Len(layouts) ->
             call("specific", layouts[args[1]], args[2])
        [] OTHER -> [err |-> TRUE, call |-> <<>>]

\* Layout.Equals: the names and all thirty keys are the same
Equals(l, other) == l.Name = other.Name /\ l.Keys = other.Keys

\* a result is of a layout that is not among the existing ones and scores
\* below the first of bestResults (or bestResults is empty)
newBetterLayoutFound(results, bestResults, layouts) ==
  \E i \in DOMAIN results :
    /\ \A k \in DOMAIN layouts : ~Equals(results[i].Layout, layouts[k])
    /\ (Len(bestResults) = 0 \/ RLess(results[i].Score, bestResults[1].Score))

\* faulty variant: the select never finds `done` closed
selectDoneNever(c) == FALSE

\* select { case <-done: ...; default: }
selectDone(c) == c.done

\* the names that carry the mark of a temporary result
hasResultMark(name) ==
  name \in {"[0] " \o RandomNames[i] : i \in DOMAIN RandomNames}
           \cup {"[0] seedL", "[0] seedU", "[0] two", "search result"}

\* bestResults[0].Layout under the name of a temporary result
markedBest(bestResults) ==
  IF hasResultMark(bestResults[1].Layout.Name)
  THEN bestResults[1].Layout
  ELSE [bestResults[1].Layout EXCEPT !.Name = "[0] " \o @]

\* faulty variant: the name is changed in the result itself
storeResultsRenamed(c) ==
  [c EXCEPT !.pc = "stopped",
            !.stored = IF Len(c.bestResults) > 0
                       THEN [c.bestResults EXCEPT ![1].Layout = markedBest(c.bestResults)]
                       ELSE c.bestResults,
            !.searchResultLayout =
               IF Len(c.bestResults) > 0 THEN markedBest(c.bestResults) ELSE NoLayout]

\* after the loop: ch.bestResults and ch.searchResultLayout
storeResults(c) ==
  [c EXCEPT !.pc = "stopped",
            !.stored = c.bestResults,
            !.searchResultLayout =
               IF Len(c.bestResults) > 0 THEN markedBest(c.bestResults) ELSE NoLayout]

\* the pass after the search call has returned: the select, and without a
\* stop the comparison of the results with bestResults
afterSearch(c) ==
  IF selectDone(c)
  THEN [c EXCEPT !.pc = "exit"]
  ELSE [c EXCEPT !.pc = "loop",
                 !.bestResults =
                    IF newBetterLayoutFound(c.results, c.bestResults, c.in.layouts)
                    THEN c.results ELSE @]

\* the search call the loop makes
continuousSearch(c) ==
  SearchCall([variant |-> c.call.variant, config |-> c.in.config,
              langData |-> c.in.langData, layouts |-> c.in.layouts,
              startLayout |-> c.call.startLayout, params |-> c.call.params,
              numBest |-> c.call.numBest])

\* what the tape keeps of a state of the search call
tapeMark(s) == <<s.currentLayout.Keys, s.neighborLayout.Keys>>

\* a step of the search call in progress led to the state `next`
runStepped(c, next) ==
  [c EXCEPT !.run = next,
            !.step = @ + 1,
            !.tape = IF c.iteration = 1 THEN Append(@, tapeMark(next)) ELSE @,
            !.following = /\ @
                          /\ c.step < Len(c.tape)
                          /\ c.tape[c.step + 1] = tapeMark(next)]

\* the states an annealing iteration of the call in progress can lead to:
\* those of the generator's draws, and for a call that follows the tape
\* the one of the draws of the first call
iterateSeeded(c) ==
  LET all == UNION {iterate(c.run, draw) : draw \in DrawsOver(neighborPositions(c.run))}
  IN  IF c.following
      THEN {next \in all : tapeMark(next) = c.tape[c.step + 1]}
      ELSE all

ContinuousInputs ==
  LET free == ConfigWith(FixedFree, WeightsA)
  IN       {[config |-> free, langData |-> CorpusA, layouts |-> <<SeedUpper3, SeedUpper>>,
             args |-> args] : args \in {<<1>>, <<2>>, <<2, 2>>, <<0>>, <<3, 1>>}}
      \cup {[config |-> free, langData |-> Corpus1, layouts |-> <<SeedTwo>>,
             args |-> args] : args \in {<<>>, <<1>>, <<2>>}}

InitContinuous ==
  /\ cont \in {[pc |-> "command", in |-> in, call |-> <<>>,
                done |-> FALSE, iteration |-> 0, run |-> NoRun, step |-> 0,
                tape |-> <<>>, following |-> FALSE,
                results |-> <<>>, bestResults |-> <<>>,
                stored |-> <<>>, searchResultLayout |-> NoLayout,
                completed |-> <<>>, stopInRun |-> FALSE,
                itersSinceStop |-> 0, runsSinceStop |-> 0] :
                in \in ContinuousInputs}
  /\ search = Idle
  /\ bench = Idle
  /\ runA = Idle
  /\ runB = Idle
  /\ loader = Idle
  /\ shell = Idle

\* the command up to the loop: the arguments, the goroutine
CommandContinuousAnalyze ==
  /\ cont.pc = "command"
  /\ LET parsed == continuousCall(cont.in.layouts, cont.in.args)
     IN  cont' = IF parsed.err
                 THEN [cont EXCEPT !.pc = "error"]
                 ELSE [cont EXCEPT !.pc = "loop", !.call = parsed.call]
  /\ UNCHANGED <<search, bench, runA, runB, loader, shell>>

\* the goroutine reads q or Esc and closes `done`
StopSignal ==
  /\ cont.pc \in {"loop", "run", "poll"}
  /\ ~cont.done
  /\ cont' = [cont EXCEPT !.done = TRUE, !.stopInRun = (cont.pc = "run")]
  /\ UNCHANGED <<search, bench, runA, runB, loader, shell>>

\* head of the loop and entry of the search call
ContinuousRunStart ==
  /\ cont.pc = "loop"
  /\ cont.iteration < MaxRuns
  /\ cont' = [cont EXCEPT !.pc = "run",
                          !.iteration = @ + 1,
                          !.run = searchStart(continuousSearch(cont)),
                          !.step = 1,
                          !.tape = IF cont.iteration = 0
                                   THEN <<tapeMark(searchStart(continuousSearch(cont)))>>
                                   ELSE @,
                          !.following = cont.iteration > 0,
                          !.results = <<>>,
                          !.runsSinceStop = IF cont.done THEN @ + 1 ELSE @]
  /\ UNCHANGED <<search, bench, runA, runB, loader, shell>>

ContinuousRestartBegin ==
  /\ cont.pc = "run"
  /\ cont.run.pc = "restart"
  /\ cont.run.restart < cont.run.params.Restarts
  /\ \E letters \in Orderings(restartLetterSet(cont.run)) :
       cont' = runStepped(cont, restartBegin(cont.run, letters))
  /\ UNCHANGED <<search, bench, runA, runB, loader, shell>>

ContinuousIterate ==
  /\ cont.pc = "run"
  /\ cont.run.pc = "iter"
  /\ cont.run.iter < cont.run.params.Iterations
  /\ \E next \in iterateSeeded(cont) :
       cont' = [runStepped(cont, next) EXCEPT
                  !.itersSinceStop = IF cont.done THEN @ + 1 ELSE @]
  /\ UNCHANGED <<search, bench, runA, runB, loader, shell>>

ContinuousRestartEnd ==
  /\ cont.pc = "run"
  /\ cont.run.pc = "iter"
  /\ cont.run.iter >= cont.run.params.Iterations
  /\ cont' = runStepped(cont, restartEnd(cont.run))
  /\ UNCHANGED <<search, bench, runA, runB, loader, shell>>

\* the search call returns its list
ContinuousRunReturn ==
  /\ cont.pc = "run"
  /\ cont.run.pc = "restart"
  /\ cont.run.restart >= cont.run.params.Restarts
  /\ cont' = [runStepped(cont, searchReturn(cont.run)) EXCEPT
                !.pc = "poll",
                !.results = searchReturn(cont.run).bestResults,
                !.completed = Append(@, searchReturn(cont.run).bestResults)]
  /\ UNCHANGED <<search, bench, runA, runB, loader, shell>>

ContinuousPoll ==
  /\ cont.pc = "poll"
  /\ cont' = afterSearch(cont)
  /\ UNCHANGED <<search, bench, runA, runB, loader, shell>>

ContinuousFinish ==
  /\ cont.pc = "exit"
  /\ cont' = storeResults(cont)
  /\ UNCHANGED <<search, bench, runA, runB, loader, shell>>

NextContinuous ==
  \/ CommandContinuousAnalyze \/ StopSignal \/ ContinuousRunStart
  \/ ContinuousRestartBegin \/ ContinuousIterate \/ ContinuousRestartEnd
  \/ ContinuousRunReturn \/ ContinuousPoll \/ ContinuousFinish

SpecContinuous == InitContinuous /\ [][NextContinuous]_vars

(***************************************************************************)
(* Properties of the continuous search (specification SpecContinuous).     *)
(***************************************************************************)
Stopped == cont.pc = "stopped"

\* C13 as stated: after `done` is closed at most one more annealing
\* iteration is executed.
C13_OneIterationAfterStop == cont.itersSinceStop <= 1

\* C13 amended: the stop signal is polled between search calls; after
\* `done` is closed at most one more search call is begun, and the call in
\* progress or begun runs to its end, up to Restarts * Iterations annealing
\* iterations after the signal.
C13_OneRunAfterStop ==
  /\ cont.runsSinceStop <= 1
  /\ cont.pc \notin {"command", "error"} =>
       cont.itersSinceStop <= cont.call.params.Restarts * cont.call.params.Iterations
  /\ cont.pc \in {"exit", "stopped"} => cont.done

\* the search has stopped after a call that began after the signal and
\* ran all of its annealing iterations
C13_Witness ==
  /\ Stopped
  /\ cont.runsSinceStop = 1
  /\ cont.itersSinceStop = cont.call.params.Restarts * cont.call.params.Iterations
  /\ cont.itersSinceStop >= 2

\* C14: when the continuous search has stopped, every result it stored is
\* consistent (its Score is the WeightedScore of its Analysis, which is that
\* of AnalyzeLayout of its Layout under the handler's cost model and
\* corpus), and the stored list is empty or the list one search call
\* returned, unchanged.
C14_StoredConsistent ==
  Stopped =>
    /\ \A i \in DOMAIN cont.stored :
         /\ cont.stored[i].Score = cont.stored[i].Analysis.WeightedScore
         /\ cont.stored[i].Analysis =
              AnalyzeLayout(cont.stored[i].Layout, cont.in.config, cont.in.langData)
    /\ \/ cont.stored = <<>>
       \/ \E k \in DOMAIN cont.completed : cont.stored = cont.completed[k]

\* the continuous search has stopped with a stored result whose layout is
\* not the seed, after two search calls
C14_Witness ==
  /\ Stopped
  /\ Len(cont.stored) > 0
  /\ Len(cont.completed) >= 2
  /\ cont.call.variant = "specific"
  /\ cont.stored[1].Layout.Keys # createLowercaseLayout(cont.call.startLayout).layout.Keys
  /\ cont.searchResultLayout.Name # cont.stored[1].Layout.Name

\* C15 as stated: when `done` is closed inside a search call, the results
\* of that call are taken over if they hold a new, better layout; the
\* stored list is then the list that call returned.
C15_LastRunCounts ==
  (/\ Stopped
   /\ cont.stopInRun
   /\ newBetterLayoutFound(cont.results, cont.bestResults, cont.in.layouts)) =>
    cont.stored = cont.results

(***************************************************************************)
(* The command shell (specification SpecShell): the temporary layout [0]   *)
(* of the command handler under the commands g, gg, sw, inv, s, sort, d, n *)
(* and r.  The layout file, the output file and layout.txt are one file,   *)
(* as they are by default, and ch.layouts is its content.  shell is        *)
(* the record of the CommandHandler fields layouts, bestResults,           *)
(* searchResultLayout, invertedLayout and isInvertedLayoutActive; a        *)
(* pointer is a sequence, <<>> for nil and <<layout>> otherwise.  A result *)
(* of bestResults is kept by its Layout.  The search that g runs is taken  *)
(* by its outcome, a rearrangement of the keys it started from.            *)
(* History, read by no command: shell.last (the command that ran, whether  *)
(* it had an argument, and what getLayoutByIndex(0) gave before it) and    *)
(* shell.count.                                                            *)
(***************************************************************************)
\* the commands of one session are cut off after this many
MaxCommands == 3

ShellQwerty ==
  [Name |-> "qwerty",
   Keys |-> Grid(<<"q", "w", "e", "r", "t", "y", "u", "i", "o", "p">>,
                 <<"a", "s", "d", "f", "g", "h", "j", "k", "l", ";">>,
                 <<"z", "x", "c", "v", "b", "n", "m", ",", ".", "/">>)]

\* a layout with empty cells in every row
ShellSparse ==
  [Name |-> "sparse",
   Keys |-> Grid(<<"q", "w", "", "", "", "", "", "", "", "">>,
                 HomeRow("a", "b", "c", "d"),
                 <<"z", "", "", "", "", "", "", "", "", "">>)]

\* strings.Contains
stringsContains(s, substr) ==
  \E i \in 1..(Len(s) - Len(substr) + 1) : SubSeq(s, i, i + Len(substr) - 1) = substr

\* getLayoutByIndex(0)
getLayoutByIndex0(ch) ==
  IF ch.isInvertedLayoutActive /\ ch.invertedLayout # <<>>
  THEN ch.invertedLayout
  ELSE ch.searchResultLayout

\* the loop invertedLayout.Keys[row][col] = layout.Keys[row][9-col]
invertKeys(keys) == [p \in Positions |-> keys[<<p[1], 9 - p[2]>>]]

\* faulty variant: the flag of the inverted layout is left as it is
clearTemporaryKeepingFlag(ch) ==
  [ch EXCEPT !.searchResultLayout = <<>>,
             !.invertedLayout = <<>>,
             !.bestResults = <<>>]

\* the temporary layouts and results are dropped
clearTemporary(ch) ==
  [ch EXCEPT !.searchResultLayout = <<>>,
             !.invertedLayout = <<>>,
             !.isInvertedLayoutActive = FALSE,
             !.bestResults = <<>>]

\* the pairs of cells by which the outcome of a seeded search of the model
\* differs from its start
ShellSwaps == {<<<<1, 0>>, <<1, 0>>>>, <<<<1, 0>>, <<1, 1>>>>, <<<<0, 0>>, <<1, 3>>>>}

\* the orders of the letters a random search of the model starts from
ShellShuffles ==
  {[i \in 1..30 |-> ShellQwerty.Keys[<<(i - 1) \div 10, (i - 1) % 10>>]],
   [i \in 1..30 |-> ShellQwerty.Keys[<<(30 - i) \div 10, (30 - i) % 10>>]]}

\* the best layouts the search of a call may return
searchOutcomes(call) ==
  IF call.variant = "specific"
  THEN LET base == createLowercaseLayout(call.startLayout).layout
       IN  {[base EXCEPT !.Keys = [p \in Positions |->
                                     IF p = pq[1] THEN base.Keys[pq[2]]
                                     ELSE IF p = pq[2] THEN base.Keys[pq[1]]
                                     ELSE base.Keys[p]]] : pq \in ShellSwaps}
  ELSE {fillRandomLayout(0, letters) : letters \in ShellShuffles}

\* the end of CommandAnalyze: ch.bestResults = results and the first
\* result, marked "[0] ", as searchResultLayout
storeSearchResult(ch, results) ==
  [ch EXCEPT !.bestResults = results,
             !.searchResultLayout =
                IF Len(results) > 0
                THEN LET bestLayout == results[1].Layout
                     IN  <<IF /\ ~stringsContains(bestLayout.Name, "[0]")
                              /\ ~stringsContains(bestLayout.Name, "search result")
                           THEN [bestLayout EXCEPT !.Name = "[0] " \o @]
                           ELSE bestLayout>>
                ELSE @]

\* CommandInvert without an argument
invertNoArgument(ch) ==
  IF Len(ch.bestResults) = 0
  THEN ch
  ELSE LET layout == ch.bestResults[1].Layout
       IN  [ch EXCEPT !.invertedLayout =
                         <<[Name |-> layout.Name \o " (inv)",
                            Keys |-> invertKeys(layout.Keys)]>>,
                      !.isInvertedLayoutActive = TRUE]

\* CommandInvert with the argument 0
invertZero(ch) ==
  LET layoutToInvert == getLayoutByIndex0(ch)
  IN  IF layoutToInvert = <<>>
      THEN ch
      ELSE [ch EXCEPT !.invertedLayout =
                         <<[Name |-> layoutToInvert[1].Name \o " (inverted again)",
                            Keys |-> invertKeys(layoutToInvert[1].Keys)]>>,
                      !.isInvertedLayoutActive = TRUE]

\* CommandInvert with the number of a loaded layout
invertLoaded(ch, num) ==
  IF num <= Len(ch.layouts)
  THEN [ch EXCEPT !.invertedLayout =
                     <<[Name |-> ch.layouts[num].Name \o " (inv)",
                        Keys |-> invertKeys(ch.layouts[num].Keys)]>>,
                  !.isInvertedLayoutActive = TRUE]
  ELSE ch

\* CommandSwapLetters: num = 0 stands for `sw ab`, a positive num for
\* `sw N ab`; an error leaves the handler as it was
commandSwapLetters(ch, num, char1, char2) ==
  LET source == IF num > 0 THEN <<ch.layouts[num]>> ELSE getLayoutByIndex0(ch)
      swapped(keys) ==
        [p \in Positions |->
           IF keys[p] = char1 THEN char2
           ELSE IF keys[p] = char2 THEN char1
           ELSE keys[p]]
      foundBoth(keys) ==
        /\ \E p \in Positions : keys[p] = char1
        /\ \E p \in Positions : keys[p] = char2 /\ keys[p] # char1
  IN  IF num > Len(ch.layouts) \/ source = <<>> \/ ~foundBoth(source[1].Keys)
      THEN ch
      ELSE [ch EXCEPT !.searchResultLayout =
                         <<[Name |-> source[1].Name \o " (sw " \o char1 \o char2 \o ")",
                            Keys |-> swapped(source[1].Keys)]>>,
                      !.isInvertedLayoutActive = FALSE,
                      !.invertedLayout = <<>>]

\* strings.Fields of a written row, as parseLayoutRowWithComments keeps it
parseLayoutRow(keys, row) ==
  LET written == [i \in 1..10 |-> keys[<<row, i - 1>>]]
      parts == SelectSeq(written, LAMBDA k : k \notin {"", " "})
  IN  [c \in Cols |-> IF c < Len(parts) THEN parts[c + 1] ELSE ""]

\* a row that is written as a blank line
blankRow(keys, row) == \A c \in Cols : keys[<<row, c>>] \in {"", " "}

\* LoadLayouts over the file with layoutToSave appended to it: a layout
\* with a blank row does not reach three rows and is left out
reloadWith(layouts, layoutToSave) ==
  IF \E row \in Rows : blankRow(layoutToSave.Keys, row)
  THEN layouts
  ELSE Append(layouts,
              [Name |-> layoutToSave.Name,
               Keys |-> [p \in Positions |->
                           parseLayoutRow(layoutToSave.Keys, p[1])[p[2]]]])

\* the arguments of `s`: none, a number, a name
SaveArgs ==
  {[isNum |-> FALSE, num |-> 0, text |-> ""],
   [isNum |-> TRUE, num |-> 0, text |-> "0"],
   [isNum |-> TRUE, num |-> 1, text |-> "1"],
   [isNum |-> TRUE, num |-> 9, text |-> "9"],
   [isNum |-> FALSE, num |-> 0, text |-> "mine"]}

\* the layout CommandSave writes, or <<>> with its error
layoutToSave(ch, arg) ==
  LET activeLayout == getLayoutByIndex0(ch)
  IN  CASE arg.text = "" -> activeLayout
        [] arg.isNum /\ arg.num = 0 ->
             IF activeLayout = <<>> THEN <<>>
             ELSE <<IF SubSeq(activeLayout[1].Name, 1, 4) = "[0] "
                    THEN [activeLayout[1] EXCEPT
                            !.Name = SubSeq(@, 5, Len(@))]
                    ELSE activeLayout[1]>>
        [] arg.isNum /\ arg.num > 0 /\ arg.num <= Len(ch.layouts) ->
             <<ch.layouts[arg.num]>>
        [] OTHER ->
             IF activeLayout = <<>> THEN <<>>
             ELSE <<[activeLayout[1] EXCEPT !.Name = arg.text]>>

\* CommandSave: the layout is appended to the file, the file is read back
\* and the temporary layouts are dropped
saveLayout(ch, arg) ==
  IF layoutToSave(ch, arg) = <<>>
  THEN ch
  ELSE clearTemporary([ch EXCEPT !.layouts = reloadWith(@, layoutToSave(ch, arg)[1])])

\* the layouts LoadLayouts reads from the file in which `layouts` have
\* been written one after the other
writtenAndLoaded(layouts) ==
  LET kept == SelectSeq(layouts, LAMBDA l : ~\E row \in Rows : blankRow(l.Keys, row))
  IN  [i \in DOMAIN kept |->
         [Name |-> kept[i].Name,
          Keys |-> [p \in Positions |-> parseLayoutRow(kept[i].Keys, p[1])[p[2]]]]]

\* the arguments of `gg`: none, the number of a loaded layout, and a
\* layout number out of range with a number of results
ContinuousArgs == {<<>>, <<1>>, <<9, 2>>}

\* the start of CommandContinuousAnalyze, before the arguments are read
clearBeforeContinuous(ch) ==
  [ch EXCEPT !.searchResultLayout = <<>>,
             !.invertedLayout = <<>>,
             !.isInvertedLayoutActive = FALSE]

\* the bestResults a continuous search may end with: none when it is
\* stopped before its first result, else the best layout found
continuousOutcomes(ch, args) ==
  LET call == IF Len(args) = 0
              THEN [variant |-> "random", startLayout |-> NoLayout]
              ELSE [variant |-> "specific", startLayout |-> ch.layouts[args[1]]]
  IN  {<<>>} \cup {<<[Layout |-> best]>> : best \in searchOutcomes(call)}

\* the loop of CommandSort that analyses every layout: the scores
scoredLayouts(layouts, config, langData) ==
  SubSeq([i \in DOMAIN layouts |->
            AnalyzeLayout(layouts[i], config, langData).WeightedScore],
         1, Len(layouts))

\* the orders sort.Slice may leave the layouts in: the scores do not fall,
\* layouts of equal score come in any order
RECURSIVE sortedOrders(_, _)
sortedOrders(score, S) ==
  IF S = {}
  THEN {<<>>}
  ELSE UNION {{<<i>> \o rest : rest \in sortedOrders(score, S \ {i})} :
                i \in {j \in S : \A k \in S : ~RLess(score[k], score[j])}}

\* CommandSort: the layouts are written sorted by WeightedScore and read
\* back; the search result and the results are dropped and the flag is
\* reset, invertedLayout is kept
sortLayouts(ch, order) ==
  [ch EXCEPT !.layouts = writtenAndLoaded([i \in DOMAIN order |-> ch.layouts[order[i]]]),
             !.searchResultLayout = <<>>,
             !.isInvertedLayoutActive = FALSE,
             !.bestResults = <<>>]

\* the arguments of `d` as the set of indices they name
DeleteArgs == {{0}, {1}, {0, 1}, {9}}

\* CommandDelete
deleteLayouts(ch, indices) ==
  IF \E idx \in indices :
       \/ idx = 0 /\ ch.searchResultLayout = <<>>
                  /\ (ch.invertedLayout = <<>> \/ ~ch.isInvertedLayoutActive)
       \/ idx > 0 /\ idx > Len(ch.layouts)
  THEN ch
  ELSE LET cleared == IF 0 \in indices THEN clearTemporary(ch) ELSE ch
           kept == {i \in DOMAIN ch.layouts : i \notin indices}
           newLayouts == [k \in 1..Cardinality(kept) |->
                            ch.layouts[CHOOSE i \in kept :
                                         Cardinality({j \in kept : j < i}) = k - 1]]
       IN  [cleared EXCEPT !.layouts = writtenAndLoaded(newLayouts)]

\* CommandRename: number 0 names the layout that is active at [0], a
\* positive number a layout of the file, which is written and read back
renameLayout(ch, num, newName) ==
  IF num = 0
  THEN IF ch.isInvertedLayoutActive /\ ch.invertedLayout # <<>>
       THEN [ch EXCEPT !.invertedLayout[1].Name = newName]
       ELSE IF ch.searchResultLayout # <<>>
       THEN [ch EXCEPT !.searchResultLayout[1].Name = newName]
       ELSE ch
  ELSE IF num <= Len(ch.layouts)
  THEN [ch EXCEPT !.layouts = writtenAndLoaded([@ EXCEPT ![num].Name = newName])]
  ELSE ch

\* CommandReload: the files are read again and the flag is reset;
\* searchResultLayout, invertedLayout and bestResults are kept
reloadFiles(ch) ==
  [ch EXCEPT !.layouts = writtenAndLoaded(@),
             !.isInvertedLayoutActive = FALSE]

\* what a command leaves in the history
ran(ch, before, cmd, noArgument) ==
  [ch EXCEPT !.count = before.count + 1,
             !.last = [cmd |-> cmd, noArgument |-> noArgument,
                       active |-> getLayoutByIndex0(before)]]

InitShell ==
  /\ shell \in {[layouts |-> layouts, bestResults |-> <<>>,
                 searchResultLayout |-> <<>>, invertedLayout |-> <<>>,
                 isInvertedLayoutActive |-> FALSE,
                 count |-> 0,
                 last |-> [cmd |-> "", noArgument |-> FALSE, active |-> <<>>]] :
                  layouts \in {<<ShellQwerty>>, <<ShellQwerty, ShellSparse>>}}
  /\ search = Idle
  /\ bench = Idle
  /\ runA = Idle
  /\ runB = Idle
  /\ loader = Idle
  /\ cont = Idle

\* g [N]: CommandAnalyze with the outcome of its search
ShellAnalyze ==
  /\ shell.count < MaxCommands
  /\ \E args \in {<<>>, <<1>>, <<0>>} :
       LET cleared == clearTemporary(shell)
           call == analyzeCall(ConfigWith(FixedFree, WeightsA), Corpus2,
                               shell.layouts, args)
       IN  IF call.err
           THEN shell' = ran(cleared, shell, "g", Len(args) = 0)
           ELSE \E best \in searchOutcomes(call.call) :
                  shell' = ran(storeSearchResult(cleared, <<[Layout |-> best]>>),
                               shell, "g", Len(args) = 0)
  /\ UNCHANGED <<search, bench, runA, runB, loader, cont>>

\* sw [N] ab
ShellSwapLetters ==
  /\ shell.count < MaxCommands
  /\ \E num \in 0..1, letters \in {<<"a", "s">>, <<"q", "a">>, <<"a", "~">>} :
       shell' = ran(commandSwapLetters(shell, num, letters[1], letters[2]),
                           shell, "sw", num = 0)
  /\ UNCHANGED <<search, bench, runA, runB, loader, cont>>

\* inv [N]
ShellInvert ==
  /\ shell.count < MaxCommands
  /\ \/ shell' = ran(invertNoArgument(shell), shell, "inv", TRUE)
     \/ shell' = ran(invertZero(shell), shell, "inv", FALSE)
     \/ \E num \in {1, 9} : shell' = ran(invertLoaded(shell, num), shell, "inv", FALSE)
  /\ UNCHANGED <<search, bench, runA, runB, loader, cont>>

\* s [N] [name]
ShellSave ==
  /\ shell.count < MaxCommands
  /\ \E arg \in SaveArgs :
       shell' = ran(saveLayout(shell, arg), shell, "s", arg.text = "")
  /\ UNCHANGED <<search, bench, runA, runB, loader, cont>>

\* gg [N] [numBest]
ShellContinuousAnalyze ==
  /\ shell.count < MaxCommands
  /\ \E args \in ContinuousArgs :
       LET cleared == clearBeforeContinuous(shell)
       IN  IF Len(args) > 0 /\ args[1] > Len(shell.layouts)
           THEN shell' = ran(cleared, shell, "gg", FALSE)
           ELSE \E bestResults \in continuousOutcomes(shell, args) :
                  shell' = ran(storeSearchResult(cleared, bestResults),
                               shell, "gg", Len(args) = 0)
  /\ UNCHANGED <<search, bench, runA, runB, loader, cont>>

\* sort
ShellSort ==
  /\ shell.count < MaxCommands
  /\ \E score \in {scoredLayouts(shell.layouts, ConfigWith(FixedFree, WeightsA), Corpus2)} :
       \E order \in sortedOrders(score, DOMAIN shell.layouts) :
         shell' = ran(sortLayouts(shell, order), shell, "sort", TRUE)
  /\ UNCHANGED <<search, bench, runA, runB, loader, cont>>

\* d N[,M]
ShellDelete ==
  /\ shell.count < MaxCommands
  /\ \E indices \in DeleteArgs :
       shell' = ran(deleteLayouts(shell, indices), shell, "d", FALSE)
  /\ UNCHANGED <<search, bench, runA, runB, loader, cont>>

\* n N name
ShellRename ==
  /\ shell.count < MaxCommands
  /\ \E num \in {0, 1, 9} :
       shell' = ran(renameLayout(shell, num, "mine"), shell, "n", FALSE)
  /\ UNCHANGED <<search, bench, runA, runB, loader, cont>>

\* r
ShellReload ==
  /\ shell.count < MaxCommands
  /\ shell' = ran(reloadFiles(shell), shell, "r", TRUE)
  /\ UNCHANGED <<search, bench, runA, runB, loader, cont>>

NextShell ==
  \/ ShellAnalyze \/ ShellSwapLetters \/ ShellInvert \/ ShellSave
  \/ ShellContinuousAnalyze \/ ShellSort \/ ShellDelete \/ ShellRename
  \/ ShellReload

SpecShell == InitShell /\ [][NextShell]_vars

(***************************************************************************)
(* Coefficients changed in the shell (specification SpecTuning): `set N    *)
(* value` and the commands that load the configuration file again.  Here   *)
(* shell holds the configuration part of the command handler: config and   *)
(* configTracker, and as history the value last asked for with `set` for   *)
(* each coefficient (0: never set), the number of reloads and the last     *)
(* command.  Coefficient values are whole numbers, so int(value) of the    *)
(* strict modes is the value itself.                                       *)
(***************************************************************************)
MaxTuning == 2

\* the values `set` is given, and the value every coefficient has in the
\* configuration file at the time of a load
SetValues == {7, 9}
FileValues == {1, 2}

\* CommandSetCoefficient: the coefficient each case of `switch num` sets
coefficientOf ==
  <<"TotalEffortNorm", "HDI", "FDI", "D18", "D27", "D36", "D45",
    "SHB", "SFB", "HVB", "FVB", "HDB", "FDB", "HFB", "HSB", "FSB", "LSB", "SRB",
    "AFI", "AFO",
    "HSBStrictMode", "FSBStrictMode", "LSBStrictMode",
    "MaxRowEffort1", "MaxRowEffort2", "MaxRowEffort3",
    "RowPenalty1", "RowPenalty2", "RowPenalty3">>

WeightNames == {coefficientOf[n] : n \in DOMAIN coefficientOf}

\* the names of allWeightNames that `set` can reach
allWeightNames == WeightNames \ {"AFI", "AFO"}

StrictModeNames == {"HSBStrictMode", "FSBStrictMode", "LSBStrictMode"}

\* the index of MaxRowEfforts / RowEffortPenalties a row coefficient mirrors
rowOf(name) ==
  CASE name \in {"MaxRowEffort1", "RowPenalty1"} -> 1
    [] name \in {"MaxRowEffort2", "RowPenalty2"} -> 2
    [] name \in {"MaxRowEffort3", "RowPenalty3"} -> 3
    [] OTHER -> 0

isMaxRowEffort(name) == name \in {"MaxRowEffort1", "MaxRowEffort2", "MaxRowEffort3"}
isRowPenalty(name) == name \in {"RowPenalty1", "RowPenalty2", "RowPenalty3"}

\* LoadKeyboardConfig of a file in which every coefficient is v
loadedConfig(v) ==
  [Weights |-> [n \in WeightNames |-> v],
   MaxRowEfforts |-> <<v, v, v>>,
   RowEffortPenalties |-> <<v, v, v>>]

NewConfigChangeTracker(weights) ==
  [originalWeights |-> weights, modifiedWeights |-> weights, weightsModified |-> {}]

IsWeightModified(ct, weightName) == weightName \in ct.weightsModified

\* SetWeight: the switch has a case for every float coefficient except AFI
\* and AFO; the name is marked modified in every case
SetWeight(ct, weightName, value) ==
  [ct EXCEPT !.modifiedWeights =
               IF weightName \in allWeightNames \ StrictModeNames
               THEN [@ EXCEPT ![weightName] = value] ELSE @,
             !.weightsModified = @ \cup {weightName}]

SetIntWeight(ct, weightName, value) ==
  [ct EXCEPT !.modifiedWeights =
               IF weightName \in StrictModeNames
               THEN [@ EXCEPT ![weightName] = value] ELSE @,
             !.weightsModified = @ \cup {weightName}]

\* ApplyToConfig: one `if ct.IsWeightModified(name)` for each name of
\* allWeightNames; the row coefficients are copied to the arrays as well
ApplyToConfig(ct, config) ==
  LET applied(n) == n \in allWeightNames /\ IsWeightModified(ct, n)
  IN  [Weights |-> [n \in WeightNames |->
                      IF applied(n) THEN ct.modifiedWeights[n] ELSE config.Weights[n]],
       MaxRowEfforts |-> [i \in 1..3 |->
                      LET n == coefficientOf[23 + i]
                      IN  IF applied(n) THEN ct.modifiedWeights[n]
                          ELSE config.MaxRowEfforts[i]],
       RowEffortPenalties |-> [i \in 1..3 |->
                      LET n == coefficientOf[26 + i]
                      IN  IF applied(n) THEN ct.modifiedWeights[n]
                          ELSE config.RowEffortPenalties[i]]]

\* UpdateBaseConfig: the modified values are saved, originalWeights becomes
\* the new weights, and the saved values are written back
UpdateBaseConfig(ct, newWeights) ==
  LET modifiedValues == [n \in {m \in allWeightNames : IsWeightModified(ct, m)} |->
                           ct.modifiedWeights[n]]
  IN  [ct EXCEPT !.originalWeights = newWeights,
                 !.modifiedWeights = [n \in WeightNames |->
                      IF n \in DOMAIN modifiedValues THEN modifiedValues[n] ELSE @[n]]]

\* set N value
CommandSetCoefficient(ch, num, value) ==
  IF num \notin DOMAIN coefficientOf
  THEN ch
  ELSE LET name == coefficientOf[num]
       IN  [ch EXCEPT
             !.config.Weights[name] = value,
             !.config.MaxRowEfforts =
                IF isMaxRowEffort(name) THEN [@ EXCEPT ![rowOf(name)] = value] ELSE @,
             !.config.RowEffortPenalties =
                IF isRowPenalty(name) THEN [@ EXCEPT ![rowOf(name)] = value] ELSE @,
             !.configTracker =
                IF name \in StrictModeNames THEN SetIntWeight(@, name, value)
                ELSE SetWeight(@, name, value),
             !.asked[name] = value]

\* r, and the reload that ends s, sort, d and n: the file is loaded, the
\* tracked changes are applied to it, and it becomes the configuration
CommandReload(ch, fileValue) ==
  LET config == ApplyToConfig(ch.configTracker, loadedConfig(fileValue))
  IN  [ch EXCEPT !.config = config,
                 !.configTracker = UpdateBaseConfig(@, config.Weights),
                 !.reloads = @ + 1]

ReloadingCommands == {"r", "s", "sort", "d", "n"}

InitTuning ==
  /\ shell \in {[config |-> loadedConfig(v),
                 configTracker |-> NewConfigChangeTracker(loadedConfig(v).Weights),
                 asked |-> [n \in WeightNames |-> 0],
                 reloads |-> 0, count |-> 0, last |-> ""] : v \in FileValues}
  /\ search = Idle
  /\ bench = Idle
  /\ runA = Idle
  /\ runB = Idle
  /\ loader = Idle
  /\ cont = Idle

TuningSet ==
  /\ shell.count < MaxTuning
  /\ \E num \in 0..30, value \in SetValues :
       shell' = [CommandSetCoefficient(shell, num, value) EXCEPT
                   !.count = @ + 1, !.last = "set"]
  /\ UNCHANGED <<search, bench, runA, runB, loader, cont>>

TuningReload ==
  /\ shell.count < MaxTuning
  /\ \E cmd \in ReloadingCommands, fileValue \in FileValues :
       shell' = [CommandReload(shell, fileValue) EXCEPT
                   !.count = @ + 1, !.last = cmd]
  /\ UNCHANGED <<search, bench, runA, runB, loader, cont>>

NextTuning == TuningSet \/ TuningReload

SpecTuning == InitTuning /\ [][NextTuning]_vars

(***************************************************************************)
(* Properties of the coefficients (specification SpecTuning).              *)
(***************************************************************************)
\* C28 as stated: after a reload of the configuration file, every
\* coefficient that was changed with `set N value` (N from 1 to 29, AFI and
\* AFO included) has in the active configuration the value last set.
C28_SetSurvivesReload ==
  shell.reloads > 0 =>
    \A num \in DOMAIN coefficientOf :
      shell.asked[coefficientOf[num]] # 0 =>
        shell.config.Weights[coefficientOf[num]] = shell.asked[coefficientOf[num]]

(***************************************************************************)
(* Properties of the command shell (specification SpecShell).              *)
(***************************************************************************)
\* C19 as stated: `inv` without an argument inverts the layout that is
\* active at index [0]: whenever getLayoutByIndex(0) gave a layout before
\* the command, the layout the command stores is the column mirror of it.
C19_InvInvertsActive ==
  (shell.last.cmd = "inv" /\ shell.last.noArgument /\ shell.last.active # <<>>) =>
    /\ shell.isInvertedLayoutActive
    /\ shell.invertedLayout # <<>>
    /\ shell.invertedLayout[1].Keys = invertKeys(shell.last.active[1].Keys)

\* C30: in every state of a session, isInvertedLayoutActive implies that
\* invertedLayout is set, so getLayoutByIndex(0) gives the inverted layout
\* when the flag is set and the search or swap result when it is not.
C30_FlagImpliesInverted ==
  /\ shell.isInvertedLayoutActive => shell.invertedLayout # <<>>
  /\ getLayoutByIndex0(shell) = IF shell.isInvertedLayoutActive
                                THEN shell.invertedLayout
                                ELSE shell.searchResultLayout

\* a reload has reset the flag of an inverted layout, which is kept, and
\* [0] gives the result of the search again
C30_Witness ==
  /\ shell.last.cmd = "r"
  /\ shell.last.active # <<>>
  /\ shell.last.active = shell.invertedLayout
  /\ ~shell.isInvertedLayoutActive
  /\ shell.searchResultLayout # <<>>
  /\ getLayoutByIndex0(shell) = shell.searchResultLayout

(***************************************************************************)
(* Properties of the search (specification Spec).                          *)
(***************************************************************************)
minInt(a, b) == IF a < b THEN a ELSE b

Done == search.pc = "done"

\* number of entries of `results` equal to r
countOf(results, r) == Cardinality({i \in DOMAIN results : results[i] = r})

\* every position the seed's uppercase markers or the mask lock
locksOfSeedOrMask(seed, config) ==
  {p \in Positions : isUppercase(seed.Keys[p]) \/ config.FixedPositions[p] # "."}

\* the lock set the seeded search resolves: the uppercase cells of the seed
\* when it has any, and only then the cells the mask does not mark '.'
resolvedLocks(seed, config) ==
  IF hasUppercaseLetters(seed)
  THEN {p \in Positions : isUppercase(seed.Keys[p])}
  ELSE {p \in Positions : config.FixedPositions[p] # "."}

\* C2 as stated: at every position locked by the seed's uppercase markers
\* or by the mask, every result of the seeded search holds the seed's key.
C2_LockedAsSeed ==
  search.variant = "specific" =>
    \A i \in DOMAIN search.bestResults :
      \A p \in locksOfSeedOrMask(search.startLayout, search.config) :
        search.bestResults[i].Layout.Keys[p] = search.startLayout.Keys[p]

\* C2 amended: at every position of the resolved lock set (the seed's
\* uppercase cells when it has any, else the mask's non-'.' cells) every
\* result of the seeded search holds the lowercased key of the seed.
C2_ResolvedLocksKept ==
  search.variant = "specific" =>
    \A i \in DOMAIN search.bestResults :
      \A p \in resolvedLocks(search.startLayout, search.config) :
        search.bestResults[i].Layout.Keys[p] = ToLower(search.startLayout.Keys[p])

\* a seeded search over a seed with locks has returned a result in which
\* letters have moved
C2_Witness ==
  /\ Done
  /\ search.variant = "specific"
  /\ resolvedLocks(search.startLayout, search.config) # {}
  /\ \E i \in DOMAIN search.bestResults :
       search.bestResults[i].Layout.Keys # search.lowercaseStartLayout.Keys

\* the layout a restart of `s` may have begun with: the seed as given, or
\* one of the restarts' random layouts
startsAsStated(s) ==
  IF s.variant = "specific"
  THEN {s.startLayout}
  ELSE {s.initial[k] : k \in DOMAIN s.initial}

\* the same with the seed in the lowercased form the search works on
startsAsSearched(s) ==
  IF s.variant = "specific"
  THEN {createLowercaseLayout(s.startLayout).layout}
  ELSE {s.initial[k] : k \in DOMAIN s.initial}

\* the length of the returned list
returnedCount(s) ==
  IF s.numBest > 0 THEN minInt(s.numBest, s.params.Restarts) ELSE s.params.Restarts

\* C4 as stated: with Iterations = 0 the returned list holds one result per
\* restart, each with the seed (or a restart's random layout) as Layout and
\* the weighted score of that layout as Score.
C4_ZeroIterationsAsStated ==
  (Done /\ search.params.Iterations = 0) =>
    /\ Len(search.bestResults) = search.params.Restarts
    /\ \A i \in DOMAIN search.bestResults :
         \E start \in startsAsStated(search) :
           /\ search.bestResults[i].Layout = start
           /\ search.bestResults[i].Score =
                AnalyzeLayout(start, search.config, search.langData).WeightedScore

\* C4 amended: with Iterations = 0 the returned list holds
\* min(numBest, Restarts) results (Restarts when numBest <= 0), each with
\* the lowercased seed (or a restart's random layout) as Layout and the
\* weighted score of that layout as Score.
C4_ZeroIterations ==
  (Done /\ search.params.Iterations = 0) =>
    /\ Len(search.bestResults) = returnedCount(search)
    /\ \A i \in DOMAIN search.bestResults :
         \E start \in startsAsSearched(search) :
           /\ search.bestResults[i].Layout = start
           /\ search.bestResults[i].Score =
                AnalyzeLayout(start, search.config, search.langData).WeightedScore

\* a seeded search with no iterations, several restarts and numBest = 1
\* over a seed with uppercase keys has returned
C4_Witness ==
  /\ Done
  /\ search.params.Iterations = 0
  /\ search.params.Restarts >= 2
  /\ search.numBest = 1
  /\ search.variant = "specific"
  /\ hasUppercaseLetters(search.startLayout)
  /\ Len(search.bestResults) = 1

\* C5: for numBest > 0 the returned list is in non-decreasing Score order,
\* has min(numBest, Restarts) entries, is drawn from the per-restart
\* results, and no per-restart result left out scores below a returned one.
C5_BestRanked ==
  (Done /\ search.numBest > 0) =>
    /\ \A i \in 1..(Len(search.bestResults) - 1) :
         ~RLess(search.bestResults[i + 1].Score, search.bestResults[i].Score)
    /\ Len(search.bestResults) = minInt(search.numBest, search.params.Restarts)
    /\ \A i \in DOMAIN search.bestResults :
         countOf(search.bestResults, search.bestResults[i])
           <= countOf(search.produced, search.bestResults[i])
    /\ \A k \in DOMAIN search.produced :
         countOf(search.bestResults, search.produced[k])
             < countOf(search.produced, search.produced[k])
           => \A i \in DOMAIN search.bestResults :
                ~RLess(search.produced[k].Score, search.bestResults[i].Score)

\* a search has returned fewer results than it had restarts, after a later
\* restart produced a lower score than an earlier one
C5_Witness ==
  /\ Done
  /\ search.numBest > 0
  /\ search.numBest < search.params.Restarts
  /\ \E k, l \in DOMAIN search.produced :
       k < l /\ RLess(search.produced[l].Score, search.produced[k].Score)
  /\ \E k \in DOMAIN search.produced :
       countOf(search.bestResults, search.produced[k]) = 0

\* C6 as stated: two returned results of equal Score stand in the order in
\* which their restarts produced them.
C6_StableOnTies ==
  Done =>
    \A i, j \in DOMAIN search.bestResults :
      (i < j /\ search.bestResults[i].Score = search.bestResults[j].Score) =>
        \E k, l \in DOMAIN search.produced :
          /\ k < l
          /\ search.produced[k] = search.bestResults[i]
          /\ search.produced[l] = search.bestResults[j]

\* the positions the variant's generator draws from in `layout`, stated
\* generator by generator: the seeded generator draws among non-empty cells
\* outside the resolved locks, generateNeighbor among cells of any content
\* that are not uppercase and (without uppercase keys) free in the mask,
\* generateRandomNeighborIgnoreFixed among all cells that are not uppercase,
\* and among none when the corpus has fewer than two characters
drawnFrom(s, layout) ==
  CASE s.variant = "specific" ->
         {p \in Positions :
            /\ layout.Keys[p] \notin {"", " "}
            /\ p \notin resolvedLocks(s.startLayout, s.config)}
    [] s.variant = "random" ->
         IF Cardinality(DOMAIN s.langData.Characters) < 2
         THEN {}
         ELSE {p \in Positions : ~isUppercase(layout.Keys[p])}
    [] OTHER ->
         {p \in Positions :
            /\ ~isUppercase(layout.Keys[p])
            /\ (hasUppercaseLetters(layout) \/ s.config.FixedPositions[p] = ".")}

\* the eligible positions of the claim: unlocked and non-empty
eligiblePositions(s, layout) ==
  {p \in drawnFrom(s, layout) : layout.Keys[p] \notin {"", " "}}

\* an iteration of the current restart has run
Iterated == search.pc = "iter" /\ search.iter > 0

\* C9 as stated: with fewer than two unlocked non-empty positions in its
\* input, the neighbor generator returns its input.
C9_NoOpBelowTwoEligible ==
  (Iterated /\ Cardinality(eligiblePositions(search, search.neighborInput)) < 2) =>
    search.neighborLayout = search.neighborInput

\* C9 amended: with fewer than two positions to draw from (non-empty
\* unlocked cells for the seeded generator, unlocked cells of any content
\* for generateNeighbor and generateRandomNeighborIgnoreFixed, none for the
\* latter when the corpus has fewer than two characters) the generator
\* returns its input, and the search goes on with the next iteration.
C9_NoOpBelowTwoDrawn ==
  [][(/\ search.pc = "iter"
      /\ search.iter < search.params.Iterations
      /\ Cardinality(drawnFrom(search, search.currentLayout)) < 2)
     => /\ search'.neighborLayout = search.currentLayout
        /\ search'.currentLayout = search.currentLayout
        /\ search'.pc = "iter"
        /\ search'.iter = search.iter + 1]_vars

\* a seeded search with a single unlocked letter has run an iteration
C9_Witness ==
  /\ Iterated
  /\ search.variant = "specific"
  /\ Cardinality(drawnFrom(search, search.neighborInput)) = 1
  /\ search.neighborLayout = search.neighborInput

\* no two cells of `layout` hold the same character
oneCellPerCharacter(layout) ==
  \A p, q \in Positions :
    (p # q /\ layout.Keys[p] = layout.Keys[q]) => layout.Keys[p] \in {"", " "}

\* C10 as stated: every restart's initial layout and every neighbor derived
\* from it holds each character in at most one cell.
C10_OneCellPerCharacter ==
  /\ \A k \in DOMAIN search.initial : oneCellPerCharacter(search.initial[k])
  /\ oneCellPerCharacter(search.neighborLayout)


\* the layouts restart number k (from 1) of `s` can begin with if it depends
\* on nothing but the inputs of the call and its own random choices
independentStarts(s, k) ==
  CASE s.variant = "specific" -> {s.lowercaseStartLayout}
    [] s.variant = "random" ->
         {fillRandomLayout(k - 1, letters) : letters \in Orderings(restartLetterSet(s))}
    [] OTHER ->
         {generateRandomLayout(s.config, letters) :
            letters \in Orderings(restartLetterSet(s))}

\* C12 as stated: what a restart works on does not depend on the results of
\* the other restarts; every restart begins with a layout fixed by the
\* inputs of the call and its own random choices.
C12_RestartsIndependent ==
  \A k \in DOMAIN search.initial : search.initial[k] \in independentStarts(search, k)

\* C12 amended: the restarts of the random-start searches are independent;
\* in a seeded search the first restart begins with the lowercased seed and
\* every later restart begins with the layout of a lowest-scoring result of
\* the restarts before it.
C12_LaterRestartsResume ==
  \A k \in DOMAIN search.initial :
    IF search.variant = "specific" /\ k > 1
    THEN \E j \in 1..(k - 1) :
           /\ search.initial[k] = search.produced[j].Layout
           /\ \A i \in 1..(k - 1) :
                ~RLess(search.produced[i].Score, search.produced[j].Score)
    ELSE search.initial[k] \in independentStarts(search, k)

\* a later restart of a seeded search has begun with a layout that is not
\* the seed, and has run an iteration
C12_Witness ==
  /\ search.variant = "specific"
  /\ Iterated
  /\ Len(search.initial) >= 2
  /\ search.initial[Len(search.initial)] # search.lowercaseStartLayout


\* C17: no step of a search changes the cost model, the corpus, the seed
\* layout of the caller or the list of existing layouts; and AnalyzeLayout
\* leaves its arguments as they were: analysed again after the call at
\* the head of a restart, the working layout, the cost model and the corpus
\* give the same analysis.
C17_InputsUnchanged ==
  [][/\ search'.config = search.config
     /\ search'.langData = search.langData
     /\ search'.startLayout = search.startLayout
     /\ search'.layouts = search.layouts
     /\ (search.pc = "restart" /\ search'.pc = "iter") =>
          search'.currentAnalysis =
            AnalyzeLayout(search'.currentLayout, search'.config, search'.langData)]_vars

\* a seeded search over a seed with uppercase keys has returned a layout
\* other than the seed, and still holds the seed as given
C17_Witness ==
  /\ Done
  /\ search.variant = "specific"
  /\ hasUppercaseLetters(search.startLayout)
  /\ \E i \in DOMAIN search.bestResults :
       search.bestResults[i].Layout.Keys # search.lowercaseStartLayout.Keys


\* the swappable positions of `layout` in a search seeded with `seed`, as
\* C18 states them
swappableAsStated(seed, config, layout) ==
  IF \E p \in Positions : isUppercase(seed.Keys[p])
  THEN {p \in Positions :
          layout.Keys[p] \notin {"", " "} /\ ~isUppercase(seed.Keys[p])}
  ELSE {p \in Positions :
          layout.Keys[p] \notin {"", " "} /\ config.FixedPositions[p] = "."}

\* C18: in a seeded search the positions the neighbor generator swaps among
\* are, for a seed with an uppercase key, exactly the non-empty positions
\* that are not uppercase in the seed, whatever the mask says, and for a
\* seed without one exactly the non-empty positions the mask marks '.';
\* a neighbor differs from its input at such positions only.
C18_LockSetAllOrNothing ==
  search.variant = "specific" =>
    /\ search.pc = "iter" =>
         swapPositionsWithUppercaseInfo(search.currentLayout, search.config,
                                        search.lowercaseStartLayout,
                                        search.uppercasePositions)
           = swappableAsStated(search.startLayout, search.config, search.currentLayout)
    /\ Iterated =>
         \A p \in Positions :
           search.neighborLayout.Keys[p] # search.neighborInput.Keys[p] =>
             p \in swappableAsStated(search.startLayout, search.config,
                                     search.neighborInput)

\* a seeded search over a seed with an uppercase key has moved the key of
\* a cell that the mask locks
C18_Witness ==
  /\ Iterated
  /\ search.variant = "specific"
  /\ hasUppercaseLetters(search.startLayout)
  /\ \E p \in Positions :
       /\ search.config.FixedPositions[p] # "."
       /\ search.neighborLayout.Keys[p] # search.neighborInput.Keys[p]


\* InitialTemp * CoolingRate^k
RECURSIVE cooledTemp(_, _, _)
cooledTemp(initialTemp, coolingRate, k) ==
  IF k = 0 THEN initialTemp
  ELSE RMul(cooledTemp(initialTemp, coolingRate, k - 1), coolingRate)

\* C20: at the start of iteration k of a restart the temperature is
\* InitialTemp * CoolingRate^k, whatever was accepted before; a neighbor
\* that scores strictly lower than the current layout has become the
\* current layout, and after any iteration the current layout is either
\* the neighbor (accepted) or the layout the neighbor was made from
\* (rejected), with its score.
C20_MetropolisAndCooling ==
  search.pc = "iter" =>
    /\ search.temperature =
         cooledTemp(search.params.InitialTemp, search.params.CoolingRate, search.iter)
    /\ search.iter > 0 =>
         LET neighborScore ==
               AnalyzeLayout(search.neighborLayout, search.config,
                             search.langData).WeightedScore
             currentScore ==
               AnalyzeLayout(search.neighborInput, search.config,
                             search.langData).WeightedScore
             accepted == /\ search.currentLayout = search.neighborLayout
                         /\ search.currentScore = neighborScore
             rejected == /\ search.currentLayout = search.neighborInput
                         /\ search.currentScore = currentScore
         IN  /\ RLess(neighborScore, currentScore) => accepted
             /\ accepted \/ rejected

\* the second iteration of a restart has rejected its neighbor, and the
\* temperature has been lowered twice
C20_Witness ==
  /\ search.pc = "iter"
  /\ search.iter = 2
  /\ search.currentLayout = search.neighborInput
  /\ search.currentLayout # search.neighborLayout
  /\ search.temperature = RMul(RMul(search.params.InitialTemp, search.params.CoolingRate),
                               search.params.CoolingRate)
  /\ search.temperature # search.params.InitialTemp

\* C21: within a restart the tracked best score is never above the current
\* score, the tracked best is the lowest-scoring layout among the restart's
\* working layout and every neighbor scored so far, and the result a
\* restart appends is that layout with that score.
C21_RestartBestIsLowest ==
  /\ search.pc = "iter" =>
       /\ ~RLess(search.currentScore, search.bestScoreRestart)
       /\ search.bestScoreRestart = search.lowest.Score
       /\ search.bestLayoutRestart = search.lowest.Layout
  /\ (search.pc = "restart" /\ Len(search.produced) > 0) =>
       /\ search.produced[Len(search.produced)].Score = search.lowest.Score
       /\ search.produced[Len(search.produced)].Layout = search.lowest.Layout

\* a restart has ended whose result is a neighbor, not its working layout,
\* and whose current layout scores above the result
C21_Witness ==
  /\ search.pc = "restart"
  /\ Len(search.produced) > 0
  /\ search.produced[Len(search.produced)].Layout # search.initial[Len(search.initial)]
  /\ RLess(search.produced[Len(search.produced)].Score, search.currentScore)

\* C22: in a seeded search every restart after the first begins with the
\* first (best) entry of the result list; no restart's result scores above
\* the result of an earlier restart, the first entry of the list carries
\* the score of the latest restart's result, so it never rises, and no
\* result, the final best included, scores above the lowercased seed.
C22_SeededBestNeverRises ==
  search.variant = "specific" =>
    /\ \A k \in DOMAIN search.produced :
         /\ \A j \in 1..(k - 1) :
              ~RLess(search.produced[j].Score, search.produced[k].Score)
         /\ ~RLess(AnalyzeLayout(search.lowercaseStartLayout, search.config,
                                 search.langData).WeightedScore,
                   search.produced[k].Score)
    /\ (search.pc \in {"restart", "done"} /\ Len(search.produced) > 0) =>
         /\ Len(search.bestResults) > 0
         /\ search.bestResults[1].Score = search.produced[Len(search.produced)].Score
    /\ (search.pc = "iter" /\ search.restart > 0) =>
         search.initial[Len(search.initial)] = search.bestResults[1].Layout

\* a seeded search has returned after a second restart that scored below
\* the first, which scored below the seed
C22_Witness ==
  /\ search.variant = "specific"
  /\ search.pc = "done"
  /\ Len(search.produced) >= 2
  /\ RLess(search.produced[2].Score, search.produced[1].Score)
  /\ RLess(search.produced[1].Score,
           AnalyzeLayout(search.lowercaseStartLayout, search.config,
                         search.langData).WeightedScore)
  /\ search.bestResults[1].Score = search.produced[2].Score

\* the keys of a layout, letters lowercased
lowercasedKeys(layout) == [p \in Positions |-> ToLower(layout.Keys[p])]

\* the number of cells of `keys` that hold `key`
cellsHolding(keys, key) == Cardinality({p \in Positions : keys[p] = key})

\* keys2 holds every content as often as keys1 does
sameContents(keys1, keys2) ==
  \A key \in {keys1[p] : p \in Positions} \cup {keys2[p] : p \in Positions} :
    cellsHolding(keys1, key) = cellsHolding(keys2, key)

\* C29: every layout a seeded search returns, and every layout one of its
\* restarts produced, holds the same contents as often as the lowercased
\* seed does, and is empty in every cell in which the seed is empty.
C29_ResultPermutesSeed ==
  search.variant = "specific" =>
    \A layout \in {search.bestResults[i].Layout : i \in DOMAIN search.bestResults}
                 \cup {search.produced[k].Layout : k \in DOMAIN search.produced} :
      /\ sameContents(lowercasedKeys(search.startLayout), layout.Keys)
      /\ \A p \in Positions :
           search.startLayout.Keys[p] \in {"", " "} =>
             layout.Keys[p] = search.startLayout.Keys[p]

\* a seeded search over a seed with an uppercase key and empty cells has
\* returned a layout that differs from the lowercased seed
C29_Witness ==
  /\ search.variant = "specific"
  /\ search.pc = "done"
  /\ hasUppercaseLetters(search.startLayout)
  /\ \E p \in Positions : search.startLayout.Keys[p] = ""
  /\ \E i \in DOMAIN search.bestResults :
       search.bestResults[i].Layout.Keys # lowercasedKeys(search.startLayout)

(***************************************************************************)
(* Properties of the analysis (specification SpecAnalyze).                 *)
(***************************************************************************)
Analysed == bench.analysis # NoAnalysis

\* C1: when the total matched character frequency is > 0, the three row
\* loads of the analysis sum to 100, and so do its eight finger loads and
\* its two half loads.
C1_LoadsSumTo100 ==
  (Analysed /\ TotalFreq(bench.layout, bench.langData) > 0) =>
    /\ SumRat(Rows, bench.analysis.EffortByRow) = R(100)
    /\ SumRat(Fingers, bench.analysis.EffortByFinger) = R(100)
    /\ SumRat(Halves, bench.analysis.EffortByHalf) = R(100)

\* a layout with matched letters on two rows, in both halves and on the
\* outer columns has been analysed
C1_Witness ==
  /\ Analysed
  /\ TotalFreq(bench.layout, bench.langData) > 0
  /\ Cardinality({row \in Rows : bench.analysis.EffortByRow[row] # Zero}) >= 2
  /\ bench.analysis.EffortByHalf[0] # Zero
  /\ bench.analysis.EffortByHalf[1] # Zero
  /\ bench.analysis.EffortByFinger[6] # Zero

StrictModes == {0, 1} \X {0, 1} \X {0, 1}

\* C7: whatever the three strict flags are set to, HSB + HSB2, FSB + FSB2
\* and LSB + LSB2 of the same layout and corpus are those of the analysis
\* made under the flags of the configuration.
C7_StrictKeepsSums ==
  Analysed =>
    \A m \in StrictModes :
      LET other == calculateBigrams(
                     [bench.config EXCEPT
                        !.Weights = WithStrict(@, m[1], m[2], m[3])],
                     bench.langData, KeyPos(bench.layout))
          mine == bench.analysis.BigramAnalysis
      IN  /\ RAdd(mine.HSB, mine.HSB2) = RAdd(other.HSB, other.HSB2)
          /\ RAdd(mine.FSB, mine.FSB2) = RAdd(other.FSB, other.FSB2)
          /\ RAdd(mine.LSB, mine.LSB2) = RAdd(other.LSB, other.LSB2)

\* a strict analysis has put mass in every secondary bucket, and in HSB
C7_Witness ==
  /\ Analysed
  /\ bench.config.Weights.HSBStrictMode = 1
  /\ bench.analysis.BigramAnalysis.HSB # Zero
  /\ bench.analysis.BigramAnalysis.HSB2 # Zero
  /\ bench.analysis.BigramAnalysis.FSB2 # Zero
  /\ bench.analysis.BigramAnalysis.LSB2 # Zero

\* the numbers of an analysis, without the name of the layout
analysisValues(analysis) == [analysis EXCEPT !.LayoutName = ""]

\* the last two swaps exchanged the same two cells, or the same two letters
SwappedTwice ==
  /\ Len(bench.swaps) >= 2
  /\ bench.swaps[Len(bench.swaps)].op = bench.swaps[Len(bench.swaps) - 1].op

corpusLetters(langData) ==
  DOMAIN langData.Characters
    \cup UNION {{b[i] : i \in DOMAIN b} : b \in DOMAIN langData.Bigrams}

\* the keys a layout holds
placedKeys(layout) == {layout.Keys[p] : p \in Positions} \ {""}

\* every number of the analysis is 0
allZero(analysis) ==
  /\ analysis.TotalEffort = Zero
  /\ \A row \in Rows : analysis.EffortByRow[row] = Zero
  /\ \A f \in Fingers : analysis.EffortByFinger[f] = Zero
  /\ \A h \in Halves : analysis.EffortByHalf[h] = Zero
  /\ \A c \in DOMAIN analysis.BigramAnalysis : analysis.BigramAnalysis[c] = Zero
  /\ analysis.HDI = Zero
  /\ analysis.FDI = Zero
  /\ analysis.MEP = Zero
  /\ analysis.WeightedScore = Zero

\* C16: the analysis of a layout that holds no letter of the corpus (an
\* empty corpus included) is made without failing and is 0 in its effort,
\* its row, finger and half loads, its bigram classes, HDI, FDI, MEP and
\* WeightedScore.
C16_NothingMatchedAllZero ==
  (Analysed /\ corpusLetters(bench.langData) \cap placedKeys(bench.layout) = {}) =>
    allZero(bench.analysis)

\* a layout with letters has been analysed under a corpus with letters and
\* bigrams of which it holds none
C16_Witness ==
  /\ Analysed
  /\ DOMAIN bench.langData.Characters # {}
  /\ DOMAIN bench.langData.Bigrams # {}
  /\ placedKeys(bench.layout) # {}
  /\ corpusLetters(bench.langData) \cap placedKeys(bench.layout) = {}
  /\ allZero(bench.analysis)

(***************************************************************************)
(* Properties of the analysis of two letters (specification SpecPairs).    *)
(***************************************************************************)
\* the cells of "a" and "b"
cellOf(ch) == KeyPos(bench.layout)[ch]

\* the share of the bigrams "ab" and "ba" in the matched bigrams, in percent
pairShare ==
  LET bigrams == MatchedBigrams(bench.langData, KeyPos(bench.layout))
  IN  Percent(SumInt({b \in bigrams : b[1] # b[2]}, bench.langData.Bigrams),
              SumInt(bigrams, bench.langData.Bigrams))

\* "a" and "b" lie on one hand, on different fingers, off the center
\* columns, `rows` rows apart
scissorsPair(rows) ==
  LET p == cellOf("a")
      q == cellOf("b")
  IN  /\ getHalf(p[2]) = getHalf(q[2])
      /\ getFingerForKey(p[1], p[2]) # getFingerForKey(q[1], q[2])
      /\ abs(p[1] - q[1]) = rows
      /\ {p[2], q[2]} \cap {4, 5} = {}

\* the finger of the letter in the lower row
lowerFinger ==
  LET p == cellOf("a")
      q == cellOf("b")
  IN  IF p[1] > q[1] THEN getFingerForKey(p[1], p[2]) ELSE getFingerForKey(q[1], q[2])

\* fingers by their place on the hand (0-7 from the left pinky)
IndexFingers == {3, 4}
MiddleFingers == {2, 5}
RingFingers == {1, 6}

\* the whole pair share is in `class` and none of it in `other`
countedIn(class, other) ==
  /\ bench.analysis.BigramAnalysis[class] = pairShare
  /\ bench.analysis.BigramAnalysis[other] = Zero

\* the scissors of the pair are divided by whether the lower finger is one
\* of `stretch`
scissorsDividedBy(stretch) ==
  /\ (bench.config.Weights.HSBStrictMode = 1 /\ scissorsPair(1)) =>
       IF lowerFinger \in stretch THEN countedIn("HSB", "HSB2")
       ELSE countedIn("HSB2", "HSB")
  /\ (bench.config.Weights.FSBStrictMode = 1 /\ scissorsPair(2)) =>
       IF lowerFinger \in stretch THEN countedIn("FSB", "FSB2")
       ELSE countedIn("FSB2", "FSB")

\* C23 as stated: in strict mode a half-scissors bigram is counted in HSB
\* exactly when the letter in the lower row is on an index or ring finger,
\* and in HSB2 otherwise; likewise a full-scissors bigram and the letter in
\* the bottom row for FSB and FSB2.
C23_StretchIndexOrRing ==
  Analysed => scissorsDividedBy(IndexFingers \cup RingFingers)

\* C23 amended: the fingers that decide are the ring and middle fingers
\* (fingers 2, 3, 6 and 7 of the help text): in strict mode a half-scissors
\* bigram is counted in HSB exactly when the letter in the lower row is on
\* a ring or middle finger, and in HSB2 otherwise; likewise a full-scissors
\* bigram and the letter in the bottom row for FSB and FSB2.
C23_StretchRingOrMiddle ==
  Analysed => scissorsDividedBy(RingFingers \cup MiddleFingers)

\* a half-scissors pair with the lower letter on a middle finger has been
\* analysed in strict mode and is counted in HSB
C23_Witness ==
  /\ Analysed
  /\ bench.config.Weights.HSBStrictMode = 1
  /\ scissorsPair(1)
  /\ lowerFinger \in MiddleFingers
  /\ pairShare # Zero
  /\ countedIn("HSB", "HSB2")

\* C24 as stated: in strict mode a bigram on the lateral-stretch columns
\* (2 and 4 on the left hand, 5 and 7 on the right hand, in either order)
\* is counted in LSB and not in LSB2, on the left hand as on the right.
C24_LateralStretchBothHands ==
  (/\ Analysed
   /\ bench.config.Weights.LSBStrictMode = 1
   /\ {cellOf("a")[2], cellOf("b")[2]} \in {{2, 4}, {5, 7}}) =>
    countedIn("LSB", "LSB2")

\* sum of freq * coefficient over the matched bigrams and the individual
\* coefficients given for their ordered pairs of cells
plainTIB ==
  LET keyPos == KeyPos(bench.layout)
      bigrams == MatchedBigrams(bench.langData, keyPos)
  IN  SumInt(bigrams,
             [b \in bigrams |->
                bench.langData.Bigrams[b]
                  * IndividualCoeffSum(bench.config.BigramIndividualCoeffs,
                                       PosNum(keyPos[b[1]]) + 1,
                                       PosNum(keyPos[b[2]]) + 1)])

\* C25 as stated: the TIB of an analysis is the plain sum of freq *
\* coefficient over the matched bigrams with an individual coefficient,
\* neither divided by the matched bigram frequency nor scaled to percent,
\* and it is the term added to WeightedScore.
C25_TIBPlainSum ==
  Analysed =>
    /\ bench.analysis.BigramAnalysis.TIB = R(plainTIB)
    /\ bench.analysis.WeightedScore =
         calculateWeightedScore(bench.config,
                                [bench.analysis EXCEPT !.BigramAnalysis.TIB = R(plainTIB)])

\* the frequency of the matched bigrams
matchedBigramFreq ==
  SumInt(MatchedBigrams(bench.langData, KeyPos(bench.layout)), bench.langData.Bigrams)

\* C25 amended: the TIB of an analysis is the sum of freq * coefficient
\* over the matched bigrams with an individual coefficient, divided by the
\* frequency of the matched bigrams and scaled to percent as the bigram
\* classes are; this value is added to WeightedScore with no weight.
C25_TIBNormalised ==
  Analysed =>
    /\ bench.analysis.BigramAnalysis.TIB =
         (IF matchedBigramFreq > 0 THEN Percent(plainTIB, matchedBigramFreq) ELSE Zero)
    /\ bench.analysis.WeightedScore =
         RAdd(calculateWeightedScore(bench.config,
                                     [bench.analysis EXCEPT !.BigramAnalysis.TIB = Zero]),
              bench.analysis.BigramAnalysis.TIB)

\* a layout whose bigram has an individual coefficient has been analysed,
\* and its TIB is not the plain sum
C25_Witness ==
  /\ Analysed
  /\ plainTIB > 0
  /\ bench.analysis.BigramAnalysis.TIB = Percent(plainTIB, matchedBigramFreq)
  /\ bench.analysis.BigramAnalysis.TIB # R(plainTIB)

\* the sum of the shares of `classes` in an analysis
RECURSIVE shareSum(_, _)
shareSum(b, classes) ==
  IF classes = <<>> THEN Zero
  ELSE RAdd(b[Head(classes)], shareSum(b, Tail(classes)))

\* C26 as stated: SFB = HVB + FVB + HDB + FDB + HFB + SKB in the analysis
\* of a layout without duplicate characters, under every corpus.
C26_SameFingerDecomposes ==
  Analysed =>
    bench.analysis.BigramAnalysis.SFB =
      shareSum(bench.analysis.BigramAnalysis, <<"HVB", "FVB", "HDB", "FDB", "HFB", "SKB">>)

\* C27 as stated: SHB = SFB + HSB + HSB2 + FSB + FSB2 + LSB + LSB2 + SRB in
\* the analysis of a layout without duplicate characters, under every
\* corpus.
C27_SameHandDecomposes ==
  Analysed =>
    bench.analysis.BigramAnalysis.SHB =
      shareSum(bench.analysis.BigramAnalysis,
               <<"SFB", "HSB", "HSB2", "FSB", "FSB2", "LSB", "LSB2", "SRB">>)

(***************************************************************************)
(* Properties of two calls with the same seed (specification SpecRepro).   *)
(***************************************************************************)
\* C3 as stated: two calls with the same RandomSeed and equal inputs
\* return identical result lists, for the seeded and for the random-start
\* variant, whatever the order of the map walks.
C3_SameSeedSameResults ==
  (runA.pc = "done" /\ runB.pc = "done" /\ runA.variant \in {"specific", "random"}) =>
    runA.bestResults = runB.bestResults

=============================================================================
